---- MODULE Spec2Model ----
(***************************************************************************)
(* Authenticated request pipeline of ai-email-agent:                       *)
(*   TokenCacheManager      (src/src/auth/token_cache.py)                  *)
(*   AuthenticationManager  (src/src/auth/manager.py)                      *)
(*   GraphApiClient         (src/src/auth/graph_client.py)                 *)
(* Python values are tagged records, so that None, strings, mappings and   *)
(* lists stay distinct values that can be compared with one another.       *)
(***************************************************************************)
EXTENDS Integers, Sequences, FiniteSets, TLC

(* ---------------------------------------------------------------- bounds *)

\* Number of times the credential state can change in one behaviour.
MaxMem == 2

\* Number of page requests one scan can make.
MaxPages == 3

\* Number of entries in the value list of one page.
MaxPageLen == 2
MaxFolderPages == 2
MaxFolderPageLen == 1
MaxScopeLen == 5
MaxScopes == 3

(* ------------------------------------------------------- Python values *)

None == [t |-> "none"]
Str(s) == [t |-> "str", v |-> s]
Dict(f) == [t |-> "dict", v |-> f]
List(s) == [t |-> "list", v |-> s]
IntOf(n) == [t |-> "int", v |-> n]

IsMapping(x) == x.t = "dict"

\* Python truthiness of None, a string or a mapping.
Truthy(x) ==
    CASE x.t = "none" -> FALSE
      [] x.t = "str"  -> x.v # ""
      [] x.t = "dict" -> DOMAIN x.v # {}
      [] x.t = "int"  -> x.v # 0
      [] OTHER        -> TRUE

\* mapping.get(key): the value, or None when the key is absent.
Get(m, key) == IF key \in DOMAIN m.v THEN m.v[key] ELSE None

\* str(x) of None or of a string.
StrOf(x) == IF x.t = "str" THEN x.v ELSE "None"

(* --------------------------------------------------------- token store *)

VARIABLES
    hasPath,    \* TokenCacheManager._cache_path is set
    mem,        \* version of the in-memory SerializableTokenCache content
    dirty,      \* SerializableTokenCache.has_state_changed
    file        \* content of the backing file

storeVars == <<hasPath, mem, dirty, file>>

NoFile == [kind |-> "absent"]
EmptyFile == [kind |-> "empty"]

\* SerializableTokenCache.serialize(): the text written for a cache content.
Serialize(m) == [kind |-> "state", v |-> m]

\* How Path.write_text ends: written, refused before the file is opened,
\* or failed after the file was opened (and so truncated).
WriteOutcomes == {"ok", "open_failed", "write_failed"}

\* Mutant: persist() writes whenever a cache path is configured.
PersistSkippedWithoutPath(st) == ~st.hasPath

\* persist() returns at once: no cache path, or has_state_changed is unset.
PersistSkipped(st) == ~st.hasPath \/ ~st.dirty

\* TokenCacheManager.persist on the store st; io is how the write ends.
\* Yields the store afterwards, the number of writes and whether
\* TokenCacheError is raised.  serialize() resets has_state_changed.
Persist(st, io) ==
    IF PersistSkipped(st)
    THEN [store |-> st, writes |-> 0, raised |-> FALSE]
    ELSE CASE io = "ok" ->
                [store |-> [st EXCEPT !.dirty = FALSE, !.file = Serialize(st.mem)],
                 writes |-> 1, raised |-> FALSE]
           [] io = "open_failed" ->
                [store |-> [st EXCEPT !.dirty = FALSE],
                 writes |-> 0, raised |-> TRUE]
           [] OTHER ->
                [store |-> [st EXCEPT !.dirty = FALSE, !.file = EmptyFile],
                 writes |-> 0, raised |-> TRUE]

Store == [hasPath |-> hasPath, mem |-> mem, dirty |-> dirty, file |-> file]

\* A backing file whose text is no JSON: malformed or cut short.
Malformed == [kind |-> "malformed"]

\* How Path.read_text ends.
ReadOutcomes == {"ok", "read_failed"}

\* TokenCacheManager.__init__(cache_path) over the file f: _load reads the
\* file if it exists and deserializes a text that is not empty.  Yields the
\* store and whether TokenCacheError is raised.
Load(withPath, f, io) ==
    LET empty == [hasPath |-> withPath, mem |-> 0, dirty |-> FALSE, file |-> f]
    IN  IF ~withPath \/ f = NoFile THEN [store |-> empty, raised |-> FALSE]
        ELSE IF io = "read_failed" THEN [store |-> empty, raised |-> TRUE]
        ELSE CASE f.kind = "empty"     -> [store |-> empty, raised |-> FALSE]
               [] f.kind = "malformed" -> [store |-> empty, raised |-> TRUE]
               [] OTHER -> [store |-> [empty EXCEPT !.mem = f.v], raised |-> FALSE]

\* How Path.unlink ends.
UnlinkOutcomes == {"ok", "unlink_failed"}

\* Mutant: clear() unlinks without asking whether the file exists.
UnlinkAttemptedWithPath(st) == st.hasPath

\* clear() unlinks: `if self._cache_path and self._cache_path.exists()`.
UnlinkAttempted(st) == st.hasPath /\ st.file # NoFile

\* TokenCacheManager.clear on the store st: the in-memory cache is emptied,
\* then the file is unlinked if it exists.  Unlinking a file that does not
\* exist raises, like every other OSError.
Clear(st, io) ==
    LET cleared == [st EXCEPT !.mem = 0]
    IN  IF ~UnlinkAttempted(st) THEN [store |-> cleared, raised |-> FALSE]
        ELSE IF st.file = NoFile \/ io = "unlink_failed"
        THEN [store |-> cleared, raised |-> TRUE]
        ELSE [store |-> [cleared EXCEPT !.file = NoFile], raised |-> FALSE]

(* ------------------------------------------------ authentication manager *)

\* AuthConfig.scopes of the manager's configuration.
ConfigScopes == <<"https://graph.microsoft.com/.default">>

\* The scopes argument of a call: None, an empty list or a list of scopes.
ScopeArgs == {None, List(<<>>), List(<<"Mail.Read">>)}

\* Bearer strings the identity platform can issue.
Tokens == {"tokenA", "tokenB"}

\* What an MSAL acquisition call can hand back: None, an empty mapping, an
\* error mapping, or a mapping that holds an access_token.
ErrorResult ==
    Dict([k \in {"error", "error_description"} |->
            IF k = "error" THEN Str("invalid_client") ELSE Str("bad secret")])
TokenResult(tok) == Dict([k \in {"access_token"} |-> Str(tok)])
AcquireResults ==
    {None, Dict(<<>>), ErrorResult} \cup {TokenResult(tok) : tok \in Tokens}

HasAccessToken(r) == IsMapping(r) /\ "access_token" \in DOMAIN r.v

\* list(scopes or self._config.scopes)
TargetScopes(scopes) ==
    IF scopes.t = "list" /\ scopes.v # <<>> THEN scopes.v ELSE ConfigScopes

\* The message of the AuthenticationError raised for a result r.
AuthErrorMessage(r) ==
    LET error == IF IsMapping(r) THEN Get(r, "error") ELSE None
        description == IF IsMapping(r) THEN Get(r, "error_description") ELSE None
        detailed == Truthy(error) \/ Truthy(description)
    IN  [text |-> "Failed to acquire access token",
         error |-> IF detailed THEN StrOf(error) ELSE "",
         description |-> IF detailed THEN StrOf(description) ELSE ""]

\* The MSAL client adds the tokens of a network exchange to the cache.
CacheAfterAcquire(st, r, exchanged) ==
    IF HasAccessToken(r) /\ exchanged
    THEN [st EXCEPT !.mem = st.mem + 1, !.dirty = TRUE]
    ELSE st

\* Mutant: the silent acquisition is tried even when a refresh is forced.
SilentAttemptedAlways(force_refresh) == TRUE

\* get_access_token tries the silent acquisition: `if not force_refresh`.
SilentAttempted(force_refresh) == ~force_refresh

\* Mutant: the full acquisition is made whatever the silent one yielded.
FullAttemptedAlways(result) == TRUE

\* get_access_token goes on to acquire_token_for_client: `if not result`.
FullAttempted(result) == ~Truthy(result)

\* Mutant: only an empty result counts as a failure.
TokenMissingIfEmpty(result) == ~Truthy(result)

\* get_access_token gives up: `if not result or "access_token" not in result`.
TokenMissing(result) == ~Truthy(result) \/ ~HasAccessToken(result)

\* Mutant: persist() is called only when the credential state has changed.
PersistAttemptedIfDirty(st) == st.dirty

\* get_access_token calls persist() before it returns a token, whatever the
\* credential state st.
PersistAttempted(st) == TRUE

\* AuthenticationManager.get_access_token(scopes, force_refresh) on the store
\* st.  silentRes and fullRes are what acquire_token_silent and
\* acquire_token_for_client hand back if they are called, exchanged tells
\* whether the acquisition that yielded a token went to the network, and io
\* is how the write of persist() ends.
GetAccessToken(st, scopes, force_refresh, silentRes, fullRes, exchanged, io) ==
    LET target == TargetScopes(scopes)
        silentCalls == IF SilentAttempted(force_refresh)
                       THEN <<[scopes |-> target, account |-> None]>>
                       ELSE <<>>
        result1 == IF SilentAttempted(force_refresh) THEN silentRes ELSE None
        fullCalls == IF FullAttempted(result1)
                     THEN <<[scopes |-> target, force_refresh |-> force_refresh]>>
                     ELSE <<>>
        result == IF FullAttempted(result1) THEN fullRes ELSE result1
        st1 == CacheAfterAcquire(st, result, exchanged)
        p == IF PersistAttempted(st1) THEN Persist(st1, io)
             ELSE [store |-> st1, writes |-> 0, raised |-> FALSE]
        persists == IF PersistAttempted(st1) THEN 1 ELSE 0
        base == [scopes |-> scopes, force_refresh |-> force_refresh,
                 silentCalls |-> silentCalls, silentRes |-> result1,
                 fullCalls |-> fullCalls,
                 fullRes |-> IF fullCalls # <<>> THEN fullRes ELSE None]
    IN  IF TokenMissing(result)
        THEN [call |-> base, persists |-> 0, writes |-> 0, store |-> st1,
              kind |-> "raise", exc |-> "AuthenticationError",
              token |-> "", message |-> AuthErrorMessage(result)]
        ELSE IF p.raised
        THEN [call |-> base, persists |-> persists, writes |-> p.writes, store |-> p.store,
              kind |-> "raise", exc |-> "TokenCacheError",
              token |-> "", message |-> AuthErrorMessage(None)]
        ELSE [call |-> base, persists |-> persists, writes |-> p.writes, store |-> p.store,
              kind |-> "return", exc |-> "",
              token |-> StrOf(Get(result, "access_token")),
              message |-> AuthErrorMessage(None)]

(* ---------------------------------------------------------- Graph client *)

\* Retry(total=5): the retries urllib3 allows after the first attempt.
RetryTotal == 5
\* Retry(status_forcelist=...)
StatusForcelist == {429, 500, 502, 503, 504}
\* urllib3's Retry.RETRY_AFTER_STATUS_CODES: statuses retried when the
\* response carries a Retry-After header.
RetryAfterStatusCodes == {413, 429, 503}

\* DEFAULT_GRAPH_BASE_URL, as host and path segments.
BaseHost == "graph.microsoft.com"
BaseSegments == <<"v1.0">>
BaseUrl == [host |-> BaseHost, segments |-> BaseSegments]

\* The path argument: a relative path, with or without leading slashes, or
\* an absolute URL (a continuation link).
PathArgs ==
    {[kind |-> "relative", leading |-> l, segments |-> <<"me", "messages">>] :
        l \in {1}}
    \cup {[kind |-> "absolute", host |-> h, segments |-> <<"v1.0", "me", "next">>] :
        h \in {BaseHost, "other.example"}}

\* GraphApiClient._build_url: lstrip("/") and urljoin with the base URL.
BuildUrl(path) ==
    IF path.kind = "absolute"
    THEN [host |-> path.host, segments |-> path.segments]
    ELSE [host |-> BaseUrl.host, segments |-> BaseUrl.segments \o path.segments]

\* Header values are sequences of words.
Bearer(token) == <<"Bearer", token>>
CallerHeaderValue(k) ==
    CASE k = "Authorization" -> <<"Basic", "caller">>
      [] k = "Accept"        -> <<"text/html">>
      [] OTHER               -> <<"trace-1">>
HeaderArgs ==
    {None} \cup {Dict([k \in K |-> CallerHeaderValue(k)]) :
                   K \in {{"X-Trace"}, {"Authorization"}, {"Accept", "X-Trace"}}}

\* GraphApiClient._prepare_headers: merged.update(headers).
PrepareHeaders(headers, token) ==
    LET merged == [k \in {"Authorization", "Accept"} |->
                     IF k = "Authorization" THEN Bearer(token)
                     ELSE <<"application/json">>]
    IN  IF Truthy(headers)
        THEN [k \in DOMAIN merged \cup DOMAIN headers.v |->
                IF k \in DOMAIN headers.v THEN headers.v[k] ELSE merged[k]]
        ELSE merged

\* The error object of Graph's error envelope.
EnvelopeKeys == {"code", "message", "retry-after"}
Envelopes ==
    {[k \in K |-> CASE k = "code"    -> code
                    [] k = "message" -> Str("Retry later")
                    [] OTHER         -> Str("5")] :
        K \in SUBSET EnvelopeKeys, code \in {Str(""), Str("TooManyRequests")}}

\* JSON documents a response body can encode.
JsonDocs ==
    {List(<<>>), Dict([k \in {"value"} |-> List(<<>>)]),
     Dict([k \in {"error"} |-> Str("denied")])}
    \cup {Dict([k \in {"error"} |-> Dict(e)]) : e \in Envelopes}

\* A response body: no bytes, bytes that are no JSON, or an encoded document.
Bodies ==
    {[kind |-> "empty"], [kind |-> "garbage", raw |-> "<html>"]}
    \cup {[kind |-> "json", doc |-> d] : d \in JsonDocs}

Statuses == {200, 204, 304, 401, 404, 413, 429, 503}
Reasons == {"", "Reason"}

\* A response: status, body, reason phrase and whether it carries a
\* Retry-After header.  204 and 304 responses carry no body, and servers send
\* Retry-After with 413, 429 and 503 only.
Responses ==
    {r \in [status : Statuses, body : Bodies, reason : Reasons, retryAfter : BOOLEAN] :
        /\ r.status \in {204, 304} => r.body.kind = "empty"
        /\ r.retryAfter => r.status \in RetryAfterStatusCodes}

NoResponse ==
    [status |-> 0, body |-> [kind |-> "empty"], reason |-> "", retryAfter |-> FALSE]

\* requests.Response.ok: raise_for_status() raises for 400 <= status < 600.
Ok(resp) == ~(400 <= resp.status /\ resp.status < 600)

\* requests.Response.text of a body.
Text(body) ==
    CASE body.kind = "empty"   -> Str("")
      [] body.kind = "garbage" -> Str(body.raw)
      [] OTHER                 -> [t |-> "jsontext", v |-> body.doc]

\* Mutant: the check for an empty body is missing.
ParseJsonNoEmptyCheck(resp) ==
    IF resp.body.kind = "json" THEN resp.body.doc ELSE Text(resp.body)

\* GraphApiClient._parse_json
ParseJson(resp) ==
    IF resp.body.kind = "empty" THEN None
    ELSE IF resp.body.kind = "json" THEN resp.body.doc
    ELSE Text(resp.body)

NoError == [status_code |-> 0, message |-> "", error |-> None, details |-> None]
NoOutcome == [kind |-> "none", exc |-> "", value |-> None, err |-> NoError]
Return(v) == [kind |-> "return", exc |-> "", value |-> v, err |-> NoError]
Raise(exc) == [kind |-> "raise", exc |-> exc, value |-> None, err |-> NoError]
RaiseGraphApiError(e) == [kind |-> "raise", exc |-> "GraphApiError", value |-> None, err |-> e]

\* The error field of the GraphApiError raised for an envelope.
ErrorCode(error_body) ==
    IF Truthy(Get(error_body, "code")) THEN Str(StrOf(Get(error_body, "code")))
    ELSE None

\* The message field: str(error_body.get("message", message)).
ErrorMessage(error_body, message) ==
    IF "message" \in DOMAIN error_body.v THEN StrOf(error_body.v["message"])
    ELSE message

\* Mutant: the details keep the whole envelope.
ErrorDetailsUnfiltered(error_body) == Dict(error_body.v)

\* The details field: the envelope without its code and message.
ErrorDetails(error_body) ==
    Dict([k \in DOMAIN error_body.v \ {"code", "message"} |-> error_body.v[k]])

\* GraphApiClient._handle_response
HandleResponse(resp) ==
    IF Ok(resp) THEN Return(ParseJson(resp))
    ELSE
        LET message == IF resp.reason # "" THEN resp.reason
                       ELSE "Unexpected response"
            payload == ParseJson(resp)
            error_body == IF IsMapping(payload) THEN Get(payload, "error") ELSE None
            enveloped == IsMapping(error_body)
        IN  RaiseGraphApiError(
              [status_code |-> resp.status,
               message |-> IF enveloped THEN ErrorMessage(error_body, message)
                           ELSE message,
               error |-> IF enveloped THEN ErrorCode(error_body) ELSE None,
               details |-> IF enveloped THEN ErrorDetails(error_body) ELSE None])

\* _DEFAULT_ALLOWED_METHODS
AllowedMethods == {"GET", "POST", "PATCH", "DELETE", "PUT"}

\* Mutant: every error status is retried.
IsRetryAnyError(method, total, status, retryAfter) ==
    method \in AllowedMethods /\ status >= 400

\* urllib3 Retry.is_retry for a response, with `total` retries left.
IsRetry(method, total, status, retryAfter) ==
    /\ method \in AllowedMethods
    /\ \/ status \in StatusForcelist
       \/ total # 0 /\ retryAfter /\ status \in RetryAfterStatusCodes

\* urllib3 Retry.increment(...).is_exhausted(): one retry is used up and
\* the budget is exhausted once it is below zero.
Exhausted(total) == total - 1 < 0

(* ------------------------------------------------------ the running call *)

VARIABLES
    customSession,  \* a session was injected: no retrying adapter is mounted
    op,             \* the operation in progress or last completed
    pc,             \* "idle", "send" (session.request in progress) or "done"
    methodArg,      \* request(method=...)
    pathArg,        \* request(path=...)
    headersArg,     \* request(headers=...)
    scopesArg,      \* request(scopes=...) or get_access_token(scopes=...)
    auth,           \* the get_access_token calls of the operation, in order
    sent,           \* the session.request calls of the operation, in order
    attempts,       \* attempts made by the session.request that runs or has raised
    wireEvent,      \* what the last of these attempts met
    statuses,       \* the status of each response handed back to request()
    resp,           \* the last response handed back to request()
    outcome         \* how the operation ended

callVars == <<customSession, op, pc, methodArg, pathArg, headersArg, scopesArg, auth, sent,
              attempts, wireEvent, statuses, resp, outcome>>

VARIABLES
    storeCall,      \* the last direct operation on the TokenCacheManager
    unsaved,        \* a token exchange changed the cache since the last persist()
    scan,           \* the scan in progress or last completed, and its result
    fm,             \* the FolderManager: its cache and its call in progress or last completed
    cfg,            \* the last call on the configuration helpers and what it gave
    tpc,            \* where each refreshing thread stands
    tdata,          \* the text each thread got from serialize()
    traised,        \* a persist() of the thread raised TokenCacheError
    lock            \* the thread inside `with self._lock`, or NoThread

directVars == <<storeCall, unsaved>>
threadVars == <<tpc, tdata, traised, lock>>
auxVars == <<directVars, threadVars, scan, fm, cfg>>
vars == <<storeVars, callVars, auxVars>>

Threads == {"t1", "t2"}
NoThread == "none"
NoStoreCall ==
    [name |-> "none", exc |-> "", writes |-> 0, unsavedBefore |-> FALSE,
     before |-> [hasPath |-> FALSE, mem |-> 0, dirty |-> FALSE, file |-> NoFile]]
StoreCall(name, exc, writes) ==
    [name |-> name, exc |-> exc, writes |-> writes, unsavedBefore |-> unsaved,
     before |-> Store]

\* ScanResult
ScanResult(emails, scanned_count, skipped_count, folder_name, has_more, next_link, errors) ==
    [emails |-> emails, total_count |-> Len(emails), scanned_count |-> scanned_count,
     skipped_count |-> skipped_count, folder_name |-> folder_name,
     has_more |-> has_more, next_link |-> next_link, errors |-> errors]

NoResult == ScanResult(<<>>, 0, 0, None, FALSE, None, <<>>)

\* The locals of a scan and of the page generator it drives, the requests
\* made, their number's parity, the pages received and the record scanned
\* last.
NoScan ==
    [op |-> "none", pc |-> "idle", max_emails |-> None, folder_id |-> None,
     lookup |-> "none", configured |-> 0, batch_size |-> 0, limit |-> 0, top |-> 0,
     emails |-> <<>>, errors |-> <<>>, scanned_count |-> 0, skipped_count |-> 0,
     next_link |-> None, gen_next_link |-> None, total_fetched |-> 0,
     requests |-> <<>>, received |-> <<>>, parity |-> 0,
     last_scanned |-> <<0, 0>>,
     exc |-> "", result |-> NoResult]

\* The FolderManager: self._folder_cache as the folder ids in insertion
\* order, the cache at the entry of the call, the call's arguments and locals,
\* the number of requests it made, what it returned or raised, and the call
\* completed before it.
NoFolders ==
    [op |-> "none", pc |-> "idle", cache |-> <<>>, before |-> <<>>,
     include_hidden |-> FALSE, refresh_cache |-> FALSE,
     all_folders |-> <<>>, next_link |-> FALSE, requests |-> 0,
     result |-> None, exc |-> "", prev |-> "none", complete |-> None]

\* A call on the configuration helpers: its input, and the scope tuple it
\* gave or the exception it raised.
NoConfigCall ==
    [op |-> "none", input |-> None, scopes |-> <<>>, exc |-> "", original |-> <<>>]

\* No direct store operation has been made, no thread is refreshing, no
\* scan has run, the folder cache is empty and no configuration was built.
AuxIdle ==
    /\ scan = NoScan
    /\ fm = NoFolders
    /\ cfg = NoConfigCall
    /\ storeCall = NoStoreCall
    /\ unsaved = FALSE
    /\ tpc = [t \in Threads |-> "idle"]
    /\ tdata = [t \in Threads |-> NoFile]
    /\ traised = [t \in Threads |-> FALSE]
    /\ lock = NoThread

NoPath == [kind |-> "none"]
NoEvent == [kind |-> "none", status |-> 0, retryAfter |-> FALSE]
NetworkError == [kind |-> "network_error", status |-> 0, retryAfter |-> FALSE]
ResponseEvent(r) == [kind |-> "response", status |-> r.status, retryAfter |-> r.retryAfter]

\* What the log keeps of one get_access_token call.
AuthEntry(a) ==
    [call |-> a.call, persists |-> a.persists, writes |-> a.writes,
     kind |-> a.kind, exc |-> a.exc, token |-> a.token, message |-> a.message]

SetStore(st) ==
    /\ mem' = st.mem
    /\ dirty' = st.dirty
    /\ file' = st.file
    /\ UNCHANGED hasPath

\* One session.request call as the log keeps it.
SendEntry(path, headers, token) ==
    [url |-> BuildUrl(path), headers |-> PrepareHeaders(headers, token)]

\* No operation is running and none has run since the last one returned.
Idle ==
    /\ op = "none"
    /\ pc = "idle"
    /\ methodArg = ""
    /\ pathArg = NoPath
    /\ headersArg = None
    /\ scopesArg = None
    /\ auth = <<>>
    /\ sent = <<>>
    /\ attempts = 0
    /\ wireEvent = NoEvent
    /\ statuses = <<>>
    /\ resp = NoResponse
    /\ outcome = NoOutcome

\* A TokenCacheManager constructed where no backing file exists yet.
FreshStore ==
    /\ hasPath \in BOOLEAN
    /\ mem = 0
    /\ dirty = FALSE
    /\ file = NoFile

\* A direct call of AuthenticationManager.get_access_token.
CallGetAccessToken ==
    /\ pc = "idle"
    /\ \E scopes \in ScopeArgs, force_refresh \in BOOLEAN,
          silentRes \in AcquireResults, fullRes \in AcquireResults,
          exchanged \in BOOLEAN, io \in WriteOutcomes :
         LET a == GetAccessToken(Store, scopes, force_refresh, silentRes, fullRes,
                                 exchanged, io)
         IN  /\ a.store.mem <= MaxMem
             /\ SetStore(a.store)
             /\ op' = "get_access_token"
             /\ pc' = "done"
             /\ scopesArg' = scopes
             /\ auth' = <<AuthEntry(a)>>
             /\ outcome' = IF a.kind = "return" THEN Return(Str(a.token))
                           ELSE Raise(a.exc)
    /\ UNCHANGED <<customSession, methodArg, pathArg, headersArg, sent, attempts, wireEvent,
                   statuses, resp, auxVars>>

\* GraphApiClient.request up to its first session.request call, for
\* arguments drawn from paths, headers and scopes and MSAL answers drawn
\* from silents and fulls.
Request(methods, paths, headers, scopes, silents, fulls) ==
    /\ pc = "idle"
    /\ \E method \in methods, path \in paths, hdrs \in headers, scps \in scopes,
          silentRes \in silents, fullRes \in fulls,
          exchanged \in BOOLEAN, io \in WriteOutcomes :
         LET a == GetAccessToken(Store, scps, FALSE, silentRes, fullRes,
                                 exchanged, io)
         IN  /\ a.store.mem <= MaxMem
             /\ SetStore(a.store)
             /\ op' = "request"
             /\ methodArg' = method
             /\ pathArg' = path
             /\ headersArg' = hdrs
             /\ scopesArg' = scps
             /\ auth' = <<AuthEntry(a)>>
             /\ IF a.kind = "return"
                THEN /\ pc' = "send"
                     /\ sent' = <<SendEntry(path, hdrs, a.token)>>
                     /\ outcome' = NoOutcome
                ELSE /\ pc' = "done"
                     /\ sent' = <<>>
                     /\ outcome' = Raise(a.exc)
    /\ UNCHANGED <<customSession, attempts, wireEvent, statuses, resp, auxVars>>

\* The retries the mounted adapter has left in the current session.request.
RetriesLeft == RetryTotal - attempts

\* What one attempt on the wire can meet: one of the responses, or a
\* network failure.
WireEvents(responses) == {ResponseEvent(r) : r \in responses} \cup {NetworkError}

\* The mounted adapter wants to retry after the event e.
WantsRetry(e) ==
    /\ ~customSession
    /\ \/ e.kind = "network_error"
       \/ /\ e.kind = "response"
          /\ IsRetry(methodArg, RetriesLeft, e.status, e.retryAfter)

\* An attempt fails or meets a retried status, and the adapter tries again.
TransportRetry(responses) ==
    /\ pc = "send"
    /\ \E e \in WireEvents(responses) :
         /\ WantsRetry(e)
         /\ ~Exhausted(RetriesLeft)
         /\ wireEvent' = e
    /\ attempts' = attempts + 1
    /\ UNCHANGED <<storeVars, customSession, op, pc, methodArg, pathArg, headersArg, scopesArg,
                   auth, sent, statuses, resp, outcome, auxVars>>

\* session.request raises: the retries are used up, or an injected session
\* meets a network failure.  request() does not catch it.
TransportFails(responses) ==
    /\ pc = "send"
    /\ \E e \in WireEvents(responses) :
         /\ \/ WantsRetry(e) /\ Exhausted(RetriesLeft)
            \/ customSession /\ e.kind = "network_error"
         /\ wireEvent' = e
         /\ outcome' = Raise(IF e.kind = "network_error"
                             THEN "requests.ConnectionError"
                             ELSE "requests.RetryError")
    /\ attempts' = attempts + 1
    /\ pc' = "done"
    /\ UNCHANGED <<storeVars, customSession, op, methodArg, pathArg, headersArg, scopesArg,
                   auth, sent, statuses, resp, auxVars>>

\* Mutant: every 401 is answered by a refresh and another send.
ShouldRefreshOnEvery401(sendCount, status) == status = 401

\* Mutant: every error status after the first send is answered by a refresh
\* and another send.
ShouldRefreshOnAnyError(sendCount, status) == sendCount = 1 /\ status >= 400

\* Mutant: the retry asks for a token without forcing a refresh.
RefreshNotForced == FALSE

\* request() retries after the response with this status, sendCount sends
\* having been made: the check `response.status_code == 401` follows the
\* first send only.
ShouldRefresh(sendCount, status) == sendCount = 1 /\ status = 401

\* The force_refresh argument of the get_access_token call before the retry.
RefreshForced == TRUE

\* Mutant: the retry is sent with the token of the first send.
RetryTokenFirst(first, refreshed) == first

\* The token the headers of the retry are built from: `token` is assigned
\* the result of the forced refresh before _prepare_headers is called again.
RetryToken(first, refreshed) == refreshed

\* session.request hands a response back and request() goes on: after the
\* first response, a 401 forces a token refresh and a second send; any other
\* response, and every second response, goes to _handle_response.
Respond(responses, fulls) ==
    /\ pc = "send"
    /\ \E r \in responses :
         /\ ~WantsRetry(ResponseEvent(r))
         /\ resp' = r
         /\ wireEvent' = ResponseEvent(r)
         /\ statuses' = Append(statuses, r.status)
         /\ attempts' = 0
         /\ IF ShouldRefresh(Len(sent), r.status)
            THEN \E fullRes \in fulls, exchanged \in BOOLEAN, io \in WriteOutcomes :
                   LET a == GetAccessToken(Store, scopesArg, RefreshForced, None,
                                           fullRes, exchanged, io)
                   IN  /\ a.store.mem <= MaxMem
                       /\ SetStore(a.store)
                       /\ auth' = Append(auth, AuthEntry(a))
                       /\ IF a.kind = "return"
                          THEN /\ pc' = "send"
                               /\ sent' = Append(sent,
                                             SendEntry(pathArg, headersArg,
                                                       RetryToken(auth[1].token, a.token)))
                               /\ outcome' = NoOutcome
                          ELSE /\ pc' = "done"
                               /\ sent' = sent
                               /\ outcome' = Raise(a.exc)
            ELSE /\ pc' = "done"
                 /\ outcome' = HandleResponse(r)
                 /\ UNCHANGED <<storeVars, auth, sent>>
    /\ UNCHANGED <<customSession, op, methodArg, pathArg, headersArg, scopesArg, auxVars>>

\* The operation has returned or raised; the caller is free to start another.
Finish ==
    /\ pc = "done"
    /\ op' = "none"
    /\ pc' = "idle"
    /\ methodArg' = ""
    /\ pathArg' = NoPath
    /\ headersArg' = None
    /\ scopesArg' = None
    /\ auth' = <<>>
    /\ sent' = <<>>
    /\ attempts' = 0
    /\ wireEvent' = NoEvent
    /\ statuses' = <<>>
    /\ resp' = NoResponse
    /\ outcome' = NoOutcome
    /\ UNCHANGED <<storeVars, customSession, auxVars>>

(* --------------------------------------- direct token store operations *)

\* A TokenCacheManager exists: the last construction did not raise.
Built == storeCall.name # "none" /\ ~(storeCall.name = "construct" /\ storeCall.exc # "")

\* TokenCacheManager(cache_path): a new manager, with or without a path,
\* over whatever the backing file holds.
Construct ==
    /\ \E withPath \in BOOLEAN, io \in ReadOutcomes :
         LET l == Load(withPath, file, io)
         IN  /\ hasPath' = withPath
             /\ mem' = l.store.mem
             /\ dirty' = l.store.dirty
             /\ storeCall' = StoreCall("construct",
                                       IF l.raised THEN "TokenCacheError" ELSE "", 0)
    /\ unsaved' = FALSE
    /\ UNCHANGED <<file, callVars, threadVars, scan, fm, cfg>>

\* The MSAL client completes a token exchange and adds the tokens to the
\* cache it shares with the manager.
Exchange ==
    /\ Built
    /\ mem < MaxMem
    /\ mem' = mem + 1
    /\ dirty' = TRUE
    /\ unsaved' = TRUE
    /\ storeCall' = StoreCall("exchange", "", 0)
    /\ UNCHANGED <<hasPath, file, callVars, threadVars, scan, fm, cfg>>

\* TokenCacheManager.persist()
PersistCall ==
    /\ Built
    /\ \E io \in WriteOutcomes :
         LET p == Persist(Store, io)
         IN  /\ SetStore(p.store)
             /\ storeCall' = StoreCall("persist",
                                       IF p.raised THEN "TokenCacheError" ELSE "",
                                       p.writes)
    /\ unsaved' = FALSE
    /\ UNCHANGED <<callVars, threadVars, scan, fm, cfg>>

\* TokenCacheManager.clear()
ClearCall ==
    /\ Built
    /\ \E io \in UnlinkOutcomes :
         LET c == Clear(Store, io)
         IN  /\ SetStore(c.store)
             /\ storeCall' = StoreCall("clear",
                                       IF c.raised THEN "TokenCacheError" ELSE "", 0)
    /\ UNCHANGED <<unsaved, callVars, threadVars, scan, fm, cfg>>

(* ------------------------------------------------- refreshing threads *)

\* A thread's token exchange adds the tokens to the shared cache, under the
\* cache's own lock, and the thread goes on to persist().
ThreadExchange(t) ==
    /\ tpc[t] = "idle"
    /\ mem < MaxMem
    /\ mem' = mem + 1
    /\ dirty' = TRUE
    /\ tpc' = [tpc EXCEPT ![t] = "persist"]
    /\ UNCHANGED <<hasPath, file, tdata, traised, lock, callVars, directVars, scan, fm, cfg>>

\* persist(): the test of the path and of has_state_changed, outside the lock.
ThreadCheck(t) ==
    /\ tpc[t] = "persist"
    /\ tpc' = [tpc EXCEPT ![t] = IF PersistSkipped(Store) THEN "idle" ELSE "serialize"]
    /\ UNCHANGED <<storeVars, tdata, traised, lock, callVars, directVars, scan, fm, cfg>>

\* persist(): data = self._cache.serialize(), outside the lock; serialize
\* resets has_state_changed.
ThreadSerialize(t) ==
    /\ tpc[t] = "serialize"
    /\ tdata' = [tdata EXCEPT ![t] = Serialize(mem)]
    /\ dirty' = FALSE
    /\ tpc' = [tpc EXCEPT ![t] = "acquire"]
    /\ UNCHANGED <<hasPath, mem, file, traised, lock, callVars, directVars, scan, fm, cfg>>

\* persist(): `with self._lock`
ThreadAcquire(t) ==
    /\ tpc[t] = "acquire"
    /\ lock = NoThread
    /\ lock' = t
    /\ tpc' = [tpc EXCEPT ![t] = "open"]
    /\ UNCHANGED <<storeVars, tdata, traised, callVars, directVars, scan, fm, cfg>>

\* write_text opens the file, which truncates it, or fails to open it.
ThreadOpen(t) ==
    /\ tpc[t] = "open"
    /\ \/ /\ file' = EmptyFile
          /\ tpc' = [tpc EXCEPT ![t] = "write"]
          /\ UNCHANGED <<traised, lock>>
       \/ /\ tpc' = [tpc EXCEPT ![t] = "idle"]
          /\ traised' = [traised EXCEPT ![t] = TRUE]
          /\ lock' = NoThread
          /\ UNCHANGED file
    /\ UNCHANGED <<hasPath, mem, dirty, tdata, callVars, directVars, scan, fm, cfg>>

\* write_text writes the text and the lock is released, or the write fails
\* and TokenCacheError leaves the `with` block.
ThreadWrite(t) ==
    /\ tpc[t] = "write"
    /\ \/ /\ file' = tdata[t]
          /\ UNCHANGED traised
       \/ /\ traised' = [traised EXCEPT ![t] = TRUE]
          /\ UNCHANGED file
    /\ tpc' = [tpc EXCEPT ![t] = "idle"]
    /\ lock' = NoThread
    /\ UNCHANGED <<hasPath, mem, dirty, tdata, callVars, directVars, scan, fm, cfg>>

\* Another TokenCacheManager is constructed on the same path while the
\* threads refresh: its _load reads the backing file as it is at that
\* moment. The file read is noted as the file before the call.
ReaderLoad ==
    /\ hasPath
    /\ \E io \in ReadOutcomes :
         LET l == Load(TRUE, file, io)
         IN  storeCall' = StoreCall("construct",
                                    IF l.raised THEN "TokenCacheError" ELSE "", 0)
    /\ UNCHANGED <<storeVars, unsaved, callVars, threadVars, scan, fm, cfg>>

\* clear(): `with self._lock`, taken by a thread that is in no other call.
ThreadClearAcquire(t) ==
    /\ tpc[t] = "idle"
    /\ lock = NoThread
    /\ lock' = t
    /\ tpc' = [tpc EXCEPT ![t] = "clear"]
    /\ UNCHANGED <<storeVars, tdata, traised, callVars, directVars, scan, fm, cfg>>

\* clear(): self._cache.clear(), inside the lock.
ThreadClearCache(t) ==
    /\ tpc[t] = "clear"
    /\ mem' = 0
    /\ tpc' = [tpc EXCEPT ![t] = "unlink"]
    /\ UNCHANGED <<hasPath, dirty, file, tdata, traised, lock, callVars, directVars,
                   scan, fm, cfg>>

\* clear(): the file is unlinked if it exists, or the unlinking fails with
\* TokenCacheError; the lock is released and clear() is over. The thread
\* makes no further call.
ThreadUnlink(t) ==
    /\ tpc[t] = "unlink"
    /\ IF UnlinkAttempted(Store)
       THEN \/ file' = NoFile /\ UNCHANGED traised
            \/ traised' = [traised EXCEPT ![t] = TRUE] /\ UNCHANGED file
       ELSE UNCHANGED <<file, traised>>
    /\ tpc' = [tpc EXCEPT ![t] = "cleared"]
    /\ lock' = NoThread
    /\ UNCHANGED <<hasPath, mem, dirty, tdata, callVars, directVars, scan, fm, cfg>>

(* --------------------------------------------------------- email scanner *)

\* self._max_emails and self._batch_size of the scanner.
ConfiguredMaxEmails == {3}
ConfiguredBatchSizes == {2}

\* The max_emails argument of a scan.
MaxEmailsArgs == {None} \cup {IntOf(n) : n \in 0..2}

\* The max_emails argument of a filtered scan: none, or a bound below the
\* configured one.
FilterMaxEmailsArgs == {None, IntOf(1)}

\* Mutant: the max_emails argument is ignored.
LimitConfigured(max_emails, configured) == configured

\* limit = max_emails or self._max_emails
Limit(max_emails, configured) ==
    IF Truthy(max_emails) THEN max_emails.v ELSE configured

Min(a, b) == IF a <= b THEN a ELSE b

\* An entry of a page's value list: a message that parses, a message
\* without an id (KeyError), a message whose categories are no list
\* (TypeError), or an entry that is no mapping.
ItemKinds == {"ok", "no_id", "bad_categories", "not_a_dict"}
ItemLists == UNION {[1..n -> ItemKinds] : n \in 1..MaxPageLen}

\* What client.request hands back to the page generator: an exception, a
\* body that is no mapping, a mapping whose value is missing, empty or no
\* list, or a page of entries; mappings may carry @odata.nextLink.
RequestFailures == {"GraphApiError", "AuthenticationError", "requests.ConnectionError"}
PageOutcomes ==
    {[kind |-> "raise", exc |-> e, items |-> <<>>, hasNext |-> FALSE] : e \in RequestFailures}
    \cup {[kind |-> "not_a_mapping", exc |-> "", items |-> <<>>, hasNext |-> FALSE]}
    \cup {[kind |-> "no_value", exc |-> "", items |-> <<>>, hasNext |-> h] : h \in BOOLEAN}
    \cup {[kind |-> "page", exc |-> "", items |-> items, hasNext |-> h] :
            items \in ItemLists, h \in BOOLEAN}

\* The cursor the n-th response carries.
Cursor(n, outcome_) == IF outcome_.hasNext THEN Str(<<"link", n>>) ELSE None

\* What the log keeps of the n-th response: its kind, its cursor, the size
\* of its value list, the number of mappings in it (what the generator adds
\* to total_fetched), the records of it that parse, and the place of its
\* first record whose parsing raises TypeError (0 if there is none).
Received(n, outcome_) ==
    LET items == outcome_.items
        fatal == {i \in DOMAIN items : items[i] = "bad_categories"}
    IN  [kind |-> outcome_.kind,
         next_link |-> Cursor(n, outcome_),
         size |-> Len(items),
         fetched |-> Cardinality({i \in DOMAIN items : items[i] # "not_a_dict"}),
         parsable |-> {<<n, i>> : i \in {j \in DOMAIN items : items[j] = "ok"}},
         fatal |-> IF fatal = {} THEN 0
                   ELSE CHOOSE i \in fatal : \A j \in fatal : i <= j]

\* email_batch = [item for item in value if isinstance(item, dict)], each
\* record named by its page and its place in the page.
RECURSIVE EmailBatch(_, _, _)
EmailBatch(n, items, i) ==
    IF i > Len(items) THEN <<>>
    ELSE (IF items[i] = "not_a_dict" THEN <<>>
          ELSE << [id |-> <<n, i>>, kind |-> items[i]] >>)
         \o EmailBatch(n, items, i + 1)

\* Mutant: the scan of a page goes on after the limit is reached.
BatchDoneAtEnd(acc, limit) == FALSE

\* The scan of a page stops: `if len(emails) >= limit: break`.
BatchDone(acc, limit) == Len(acc.emails) >= limit

\* Mutant: a parsed email is put in front of the emails found so far.
KeepInFront(acc, email_data) ==
    [acc EXCEPT !.emails = <<email_data.id>> \o @]

\* emails.append(email)
Keep(acc, email_data) ==
    [acc EXCEPT !.emails = Append(@, email_data.id)]

\* Mutant: a record that fails to parse is noted but not counted.
SkipUncounted(acc, email_data) ==
    [acc EXCEPT !.errors = Append(@, email_data.id)]

\* `except (KeyError, ValueError)`: the record is counted as skipped and an
\* error is noted for it.
Skip(acc, email_data) ==
    [acc EXCEPT !.skipped_count = @ + 1, !.errors = Append(@, email_data.id)]

\* The inner loop of a scan over email_batch from its i-th record, on the
\* accumulators acc: Email.from_graph_api appends the email, or its KeyError
\* is counted and noted, or its TypeError leaves the scan.
RECURSIVE ScanBatch(_, _, _, _)
ScanBatch(acc, email_batch, i, limit) ==
    IF i > Len(email_batch) THEN acc
    ELSE LET email_data == email_batch[i]
             counted == [acc EXCEPT !.scanned_count = @ + 1,
                                    !.last_scanned = email_data.id]
             after ==
               CASE email_data.kind = "ok" -> Keep(counted, email_data)
                 [] email_data.kind = "no_id" -> Skip(counted, email_data)
                 [] OTHER -> [counted EXCEPT !.exc = "TypeError"]
         IN  IF after.exc # "" THEN after
             ELSE IF BatchDone(after, limit) THEN after
             ELSE ScanBatch(after, email_batch, i + 1, limit)

\* The folder lookup that precedes a filtered scan: get_inbox_folder when no
\* folder_id is given, else get_folder_by_id, which never raises.
FolderArgs == {None, Str("folder-1")}
LookupOutcomes(folder_id) ==
    IF folder_id = None THEN {"found", "not_found", "raises"}
    ELSE {"found", "not_found"}

\* The locals of a scan once the lookup is over and the loop is entered.
ScanEntered(name, max_emails, folder_id, lookup, configured, batch_size) ==
    LET limit == Limit(max_emails, configured)
    IN  [NoScan EXCEPT !.op = name, !.pc = "fetch", !.max_emails = max_emails,
                       !.configured = configured, !.batch_size = batch_size,
                       !.folder_id = folder_id, !.lookup = lookup,
                       !.limit = limit, !.top = Min(batch_size, limit)]

\* scan_folder(folder_id, max_emails=...) up to its first page request.
ScanFolder ==
    /\ scan.pc = "idle"
    /\ \E max_emails \in MaxEmailsArgs, configured \in ConfiguredMaxEmails,
          batch_size \in ConfiguredBatchSizes :
         scan' = ScanEntered("scan_folder", max_emails, Str("folder-1"), "none",
                             configured, batch_size)
    /\ UNCHANGED <<storeVars, callVars, directVars, threadVars, fm, cfg>>

\* scan_with_filter(filter_query, folder_id=..., max_emails=...) up to its
\* first page request: without an inbox it returns an empty result with one
\* error, and a failing folder listing leaves the call.
ScanWithFilter ==
    /\ scan.pc = "idle"
    /\ \E max_emails \in FilterMaxEmailsArgs, folder_id \in FolderArgs,
          configured \in ConfiguredMaxEmails, batch_size \in ConfiguredBatchSizes :
         \E lookup \in LookupOutcomes(folder_id) :
           LET entered == ScanEntered("scan_with_filter", max_emails, folder_id, lookup,
                                      configured, batch_size)
           IN  scan' =
                 IF folder_id = None /\ lookup = "not_found"
                 THEN [entered EXCEPT !.pc = "done",
                         !.result = ScanResult(<<>>, 0, 0, None, FALSE, None,
                                               <<"Inbox folder not found">>)]
                 ELSE IF lookup = "raises"
                 THEN [entered EXCEPT !.pc = "done", !.exc = "GraphApiError"]
                 ELSE entered
    /\ UNCHANGED <<storeVars, callVars, directVars, threadVars, fm, cfg>>

\* scan_inbox(max_emails=...) up to its first page request: get_inbox_folder
\* is called outside any try; without an inbox an empty result named Inbox
\* with one error is returned, and with one scan_folder is entered for it.
ScanInbox ==
    /\ scan.pc = "idle"
    /\ \E max_emails \in FilterMaxEmailsArgs, configured \in ConfiguredMaxEmails,
          batch_size \in ConfiguredBatchSizes, lookup \in LookupOutcomes(None) :
         LET entered == ScanEntered("scan_inbox", max_emails, None, lookup,
                                    configured, batch_size)
         IN  scan' =
               IF lookup = "not_found"
               THEN [entered EXCEPT !.pc = "done",
                       !.result = ScanResult(<<>>, 0, 0, Str("Inbox"), FALSE, None,
                                             <<"Inbox folder not found">>)]
               ELSE IF lookup = "raises"
               THEN [entered EXCEPT !.pc = "done", !.exc = "GraphApiError"]
               ELSE entered
    /\ UNCHANGED <<storeVars, callVars, directVars, threadVars, fm, cfg>>

\* The page generator is asked for its next page: `while total_fetched <
\* max_emails`.
GeneratorRuns == scan.pc = "fetch" /\ scan.total_fetched < scan.limit

\* The request of one generator iteration: the cursor URL as it is, or the
\* path with $top = min($top, remaining).
PageRequest ==
    IF Truthy(scan.gen_next_link)
    THEN [target |-> scan.gen_next_link, top |-> None]
    ELSE [target |-> Str("path"),
          top |-> IntOf(Min(scan.top, scan.limit - scan.total_fetched))]

\* Mutant: the generator catches GraphApiError only.
CaughtGraphApiErrorOnly(exc) == exc = "GraphApiError"

\* `except Exception: break` of the generator: every failure of a page
\* request is caught.
Caught(exc) == exc \in RequestFailures

\* One iteration of _fetch_email_pages and, if it yields a page, the body of
\* the scan's loop over that page. With logged, the request and the response
\* are added to the log of the scan, which holds MaxPages requests at most;
\* without, only the parity of the number of requests is kept, and a page is
\* named by that parity.
ScanPageOf(logged) ==
    /\ GeneratorRuns
    /\ logged => Len(scan.requests) < MaxPages
    /\ \E o \in PageOutcomes :
         LET n == IF logged THEN Len(scan.requests) + 1 ELSE scan.parity + 1
             asked == IF logged
                      THEN [scan EXCEPT !.requests = Append(@, PageRequest),
                                        !.received = Append(@, Received(n, o)),
                                        !.parity = 1 - @]
                      ELSE [scan EXCEPT !.parity = 1 - @]
             email_batch == EmailBatch(n, o.items, 1)
             fetched == [asked EXCEPT !.total_fetched = @ + Len(email_batch),
                                      !.gen_next_link = Cursor(n, o)]
             scanned == ScanBatch(fetched, email_batch, 1, scan.limit)
             noted == [scanned EXCEPT !.next_link = Cursor(n, o)]
         IN  scan' =
               IF o.kind = "raise" /\ ~Caught(o.exc)
               THEN [asked EXCEPT !.pc = "done", !.exc = o.exc]
               ELSE IF o.kind # "page" THEN [asked EXCEPT !.pc = "return"]
               ELSE IF scanned.exc # "" THEN [scanned EXCEPT !.pc = "done"]
               ELSE IF Len(noted.emails) >= scan.limit \/ ~Truthy(Cursor(n, o))
               THEN [noted EXCEPT !.pc = "return"]
               ELSE noted
    /\ UNCHANGED <<storeVars, callVars, directVars, threadVars, fm, cfg>>

ScanPage == ScanPageOf(TRUE)

\* An iteration of the generator of a scan whose requests are not logged.
ScanPageUnlogged == ScanPageOf(FALSE)

\* Mutant: has_more is set whenever a cursor is left.
HasMoreWithCursor(next_link, emails, limit) == next_link # None

\* has_more = next_link is not None and len(emails) >= limit
HasMore(next_link, emails, limit) == next_link # None /\ Len(emails) >= limit

\* The loop is over: the scan builds and returns its ScanResult.
ScanReturn ==
    /\ \/ scan.pc = "return"
       \/ scan.pc = "fetch" /\ ~GeneratorRuns
    /\ scan' = [scan EXCEPT
                  !.pc = "done",
                  !.result = ScanResult(scan.emails, scan.scanned_count,
                                        scan.skipped_count,
                                        IF scan.lookup = "found" THEN Str("Inbox") ELSE None,
                                        HasMore(scan.next_link, scan.emails, scan.limit),
                                        scan.next_link, scan.errors)]
    /\ UNCHANGED <<storeVars, callVars, directVars, threadVars, fm, cfg>>

\* The scan has returned or raised; the caller is free to start another.
ScanFinish ==
    /\ scan.pc = "done"
    /\ scan' = NoScan
    /\ UNCHANGED <<storeVars, callVars, directVars, threadVars, fm, cfg>>

(* --------------------------------------------------------- configuration *)

Range(seq) == {seq[i] : i \in DOMAIN seq}

\* Texts are sequences of characters.
Chars == {"a", "b", ",", " ", "\t"}
Whitespace == {" ", "\t"}
Texts == UNION {[1..n -> Chars] : n \in 0..MaxScopeLen}

\* The entries of a scope sequence: names, padded names, blank entries.
ScopeTexts == {<<"a">>, <<"b">>, <<" ", "a">>, <<"b", "\t">>, <<" ">>, <<>>}
ScopeLists == UNION {[1..n -> ScopeTexts] : n \in 0..MaxScopes}

\* DEFAULT_SCOPE
DefaultScope == <<"d">>

\* str.replace(old, new) for single characters.
Replace(text, old, new) == [i \in DOMAIN text |-> IF text[i] = old THEN new ELSE text[i]]

\* str.split(sep) for a single character: the pieces between the
\* separators, empty pieces included.
RECURSIVE Split(_, _)
Split(text, sep) ==
    LET at == {i \in DOMAIN text : text[i] = sep}
    IN  IF at = {} THEN <<text>>
        ELSE LET i == CHOOSE j \in at : \A k \in at : j <= k
             IN  <<SubSeq(text, 1, i - 1)>> \o Split(SubSeq(text, i + 1, Len(text)), sep)

\* str.strip(): whitespace is taken off both ends.
RECURSIVE Strip(_)
Strip(text) ==
    IF text = <<>> THEN text
    ELSE IF Head(text) \in Whitespace THEN Strip(Tail(text))
    ELSE IF text[Len(text)] \in Whitespace THEN Strip(SubSeq(text, 1, Len(text) - 1))
    ELSE text

\* [scope.strip() for scope in parts if scope.strip()]
RECURSIVE Stripped(_)
Stripped(parts) ==
    IF parts = <<>> THEN <<>>
    ELSE (IF Strip(Head(parts)) # <<>> THEN <<Strip(Head(parts))>> ELSE <<>>)
         \o Stripped(Tail(parts))

\* Mutant: every part is kept.
UniquePartsUnchecked(parts, unique_parts) == unique_parts \o parts

\* for scope in parts: if scope not in unique_parts: unique_parts.append(scope)
RECURSIVE UniqueParts(_, _)
UniqueParts(parts, unique_parts) ==
    IF parts = <<>> THEN unique_parts
    ELSE UniqueParts(Tail(parts),
                     IF Head(parts) \in Range(unique_parts) THEN unique_parts
                     ELSE Append(unique_parts, Head(parts)))

\* _normalize_scopes(scopes) for a string or a sequence of strings.
NormalizeScopes(scopes) ==
    LET parts == IF scopes.t = "str"
                 THEN Stripped(Split(Replace(Replace(scopes.v, ",", " "), " ", " "), " "))
                 ELSE Stripped(scopes.v)
    IN  UniqueParts(parts, <<>>)

\* A direct call of _normalize_scopes on a string or on a sequence. The
\* helpers keep no state: one call and the renormalization of what it gave
\* are followed.
NormalizeCall ==
    /\ cfg.op = "none"
    /\ \E scopes \in {Str(text) : text \in Texts} \cup {List(l) : l \in ScopeLists} :
         cfg' = [NoConfigCall EXCEPT !.op = "_normalize_scopes", !.input = scopes,
                                     !.scopes = NormalizeScopes(scopes)]
    /\ UNCHANGED <<storeVars, callVars, directVars, threadVars, scan, fm>>

\* _normalize_scopes applied to the scope tuple the last call gave.
NormalizeAgain ==
    /\ cfg.op \in {"_normalize_scopes", "from_env"}
    /\ cfg.exc = ""
    /\ cfg' = [NoConfigCall EXCEPT !.op = "_normalize_scopes again",
                                   !.input = List(cfg.scopes),
                                   !.scopes = NormalizeScopes(List(cfg.scopes))]
    /\ UNCHANGED <<storeVars, callVars, directVars, threadVars, scan, fm>>

\* AuthConfig.from_env, as far as the scopes go: AZURE_SCOPE, or the default
\* scope when it is missing or empty, is normalized, and a value that holds
\* no scope is refused.
FromEnv ==
    /\ cfg.op = "none"
    /\ \E raw \in {None} \cup {Str(text) : text \in Texts} :
         LET scopes_raw == IF raw = None \/ raw.v = <<>> THEN Str(DefaultScope) ELSE raw
             scopes == NormalizeScopes(scopes_raw)
         IN  cfg' = IF scopes = <<>>
                    THEN [NoConfigCall EXCEPT !.op = "from_env", !.input = raw,
                                              !.exc = "ConfigurationError"]
                    ELSE [NoConfigCall EXCEPT !.op = "from_env", !.input = raw,
                                              !.scopes = scopes]
    /\ UNCHANGED <<storeVars, callVars, directVars, threadVars, scan, fm>>

\* config.with_scopes(scopes) on a config from_env gave, as far as the scopes
\* go: the entries are stripped, the blank ones dropped, and an empty result
\* is refused; the copy gets the result and the original keeps its tuple.
\* with_scopes reads no scope of the original: it is followed on configs
\* whose AZURE_SCOPE was unset or held MaxScopes characters at most.
WithScopes ==
    /\ cfg.op = "from_env"
    /\ cfg.exc = ""
    /\ IF cfg.input = None THEN TRUE ELSE Len(cfg.input.v) <= MaxScopes
    /\ \E scopes \in ScopeLists :
         LET normalized == Stripped(scopes)
         IN  cfg' = IF normalized = <<>>
                    THEN [NoConfigCall EXCEPT !.op = "with_scopes", !.input = List(scopes),
                                              !.original = cfg.scopes,
                                              !.exc = "ConfigurationError"]
                    ELSE [NoConfigCall EXCEPT !.op = "with_scopes", !.input = List(scopes),
                                              !.original = cfg.scopes,
                                              !.scopes = normalized]
    /\ UNCHANGED <<storeVars, callVars, directVars, threadVars, scan, fm>>

(* -------------------------------------------------------- folder manager *)

\* The folders of the mailbox, by id; one of them is hidden.
FolderIds == {"inbox", "sent", "hidden"}
IsHidden(id) == id = "hidden"

\* An entry of a folder listing's value list: a folder, a mapping without
\* an id (KeyError), a mapping whose childFolderCount is null (TypeError),
\* or an entry that is no mapping.
FolderEntries == FolderIds \cup {"no_id", "bad_count", "not_a_dict"}
FolderLists == UNION {[1..n -> FolderEntries] : n \in 0..MaxFolderPageLen}

\* What client.request hands back to a listing: an exception, a body that is
\* no mapping, or a mapping with a value list and possibly @odata.nextLink.
FolderPageOutcomes ==
    {[kind |-> "raise", exc |-> e, entries |-> <<>>, hasNext |-> FALSE] : e \in RequestFailures}
    \cup {[kind |-> "not_a_mapping", exc |-> "", entries |-> <<>>, hasNext |-> FALSE]}
    \cup {[kind |-> "page", exc |-> "", entries |-> entries, hasNext |-> h] :
            entries \in FolderLists, h \in BOOLEAN}

\* self._folder_cache[folder.id] = folder: a new key goes last, a known key
\* keeps its place.
CachePut(cache, id) == IF id \in Range(cache) THEN cache ELSE Append(cache, id)

\* [f for f in folders if not f.is_hidden], unless include_hidden.
RECURSIVE Visible(_, _)
Visible(folders, include_hidden) ==
    IF folders = <<>> THEN <<>>
    ELSE (IF include_hidden \/ ~IsHidden(Head(folders)) THEN <<Head(folders)>> ELSE <<>>)
         \o Visible(Tail(folders), include_hidden)

\* Mutant: a filled cache is served even when a refresh is asked for.
ServedFromCacheAlways(cache, refresh_cache) == cache # <<>>

\* `if self._folder_cache and not refresh_cache`
ServedFromCache(cache, refresh_cache) == cache # <<>> /\ ~refresh_cache

\* The call that starts on the manager m: its cache is kept, the call
\* completed last is noted, and so are the folders of the last remote
\* listing that ran to its end (history: the program keeps no such record).
FolderCall(m, name) ==
    [NoFolders EXCEPT !.op = name, !.cache = m.cache, !.before = m.cache,
                      !.prev = m.prev, !.complete = m.complete]

\* list_folders(include_hidden, refresh_cache) up to its first request: a
\* filled cache is returned at once unless a refresh is asked for.
ListFolders ==
    /\ fm.pc = "idle"
    /\ \E include_hidden \in BOOLEAN, refresh_cache \in BOOLEAN :
         LET call == [FolderCall(fm, "list_folders") EXCEPT
                        !.include_hidden = include_hidden,
                        !.refresh_cache = refresh_cache]
         IN  fm' = IF ServedFromCache(fm.cache, refresh_cache)
                   THEN [call EXCEPT !.pc = "done",
                           !.result = List(Visible(fm.cache, include_hidden))]
                   ELSE [call EXCEPT !.pc = "listing"]
    /\ UNCHANGED <<storeVars, callVars, directVars, threadVars, scan, cfg>>

\* The loop over the value list of a page from its i-th entry: a folder is
\* appended and cached, a KeyError is skipped, a TypeError leaves the
\* listing.
RECURSIVE ListEntries(_, _, _)
ListEntries(m, entries, i) ==
    IF i > Len(entries) THEN m
    ELSE LET e == entries[i]
         IN  CASE e \in FolderIds ->
                    ListEntries([m EXCEPT !.all_folders = Append(@, e),
                                          !.cache = CachePut(@, e)], entries, i + 1)
               [] e = "bad_count" -> [m EXCEPT !.exc = "TypeError"]
               [] OTHER -> ListEntries(m, entries, i + 1)

\* One iteration of the `while True` loop of list_folders, and the return
\* when the loop is left. A listing holds MaxFolderPages requests at most.
\* With noted, the folders of a listing that ran to its end are kept as
\* history in fm.complete.
ListFoldersPageOf(noted) ==
    /\ fm.pc = "listing"
    /\ fm.requests < MaxFolderPages
    /\ \E o \in FolderPageOutcomes :
         LET asked == [fm EXCEPT !.requests = @ + 1]
             listed == ListEntries(asked, o.entries, 1)
             returned(m) == [m EXCEPT !.pc = "done",
                               !.complete = IF noted THEN List(m.all_folders) ELSE @,
                               !.result = List(Visible(m.all_folders, m.include_hidden))]
         IN  fm' =
               IF o.kind = "raise" THEN [asked EXCEPT !.pc = "done", !.exc = o.exc]
               ELSE IF o.kind = "not_a_mapping" THEN returned(asked)
               ELSE IF listed.exc # "" THEN [listed EXCEPT !.pc = "done"]
               ELSE IF ~o.hasNext THEN returned(listed)
               ELSE [listed EXCEPT !.next_link = TRUE]
    /\ UNCHANGED <<storeVars, callVars, directVars, threadVars, scan, cfg>>

ListFoldersPage == ListFoldersPageOf(FALSE)

\* An iteration of a listing whose completion is noted.
ListFoldersPageNoted == ListFoldersPageOf(TRUE)

\* What client.request hands back to get_folder_by_id: an exception, a body
\* that is no mapping, or a mapping that is a folder or is malformed.
FolderOutcomes ==
    {[kind |-> "raise", entry |-> "none"], [kind |-> "not_a_mapping", entry |-> "none"]}
    \cup {[kind |-> "mapping", entry |-> e] : e \in FolderEntries \ {"not_a_dict"}}

\* get_folder_by_id(folder_id, use_cache): a cached folder is returned
\* without a request; else the folder is requested and cached under the id
\* the response gives it, and every exception gives None.
GetFolderById ==
    /\ fm.pc = "idle"
    /\ \E folder_id \in FolderIds, use_cache \in BOOLEAN :
         LET call == FolderCall(fm, "get_folder_by_id")
         IN  IF use_cache /\ folder_id \in Range(fm.cache)
             THEN fm' = [call EXCEPT !.pc = "done", !.result = Str(folder_id)]
             ELSE \E o \in FolderOutcomes :
                    fm' = IF o.kind = "mapping" /\ o.entry \in FolderIds
                          THEN [call EXCEPT !.pc = "done", !.requests = 1,
                                  !.cache = CachePut(@, o.entry),
                                  !.result = Str(o.entry)]
                          ELSE [call EXCEPT !.pc = "done", !.requests = 1]
    /\ UNCHANGED <<storeVars, callVars, directVars, threadVars, scan, cfg>>

\* clear_cache(): self._folder_cache.clear()
ClearFolderCache ==
    /\ fm.pc = "idle"
    /\ fm' = [FolderCall(fm, "clear_cache") EXCEPT !.pc = "done", !.cache = <<>>]
    /\ UNCHANGED <<storeVars, callVars, directVars, threadVars, scan, cfg>>

\* The call has returned or raised; the caller is free to make another.
FolderFinish ==
    /\ fm.pc = "done"
    /\ fm' = [NoFolders EXCEPT !.cache = fm.cache, !.prev = fm.op,
                               !.complete = fm.complete]
    /\ UNCHANGED <<storeVars, callVars, directVars, threadVars, scan, cfg>>

(* ------------------------------------------------------- specifications *)

\* Responses with an ordinary body and reason phrase.
PlainResponses ==
    {r \in Responses :
        /\ r.reason = "Reason"
        /\ r.body.kind = IF r.status \in {204, 304} THEN "empty" ELSE "json"
        /\ r.body.kind = "json" => r.body.doc = Dict([k \in {"value"} |-> List(<<>>)])}

\* One plain response per class of status the client tells apart.
CoreResponses ==
    {r \in PlainResponses : ~r.retryAfter /\ r.status \in {200, 304, 401, 404, 429}}

\* Every body and reason phrase, without Retry-After headers.
DetailedResponses == {r \in Responses : ~r.retryAfter}

\* One fixed call: request("GET", "/me/messages").
FixedPath == {p \in PathArgs : p.kind = "relative"}
CachedToken == {TokenResult("tokenA")}
FreshToken == {TokenResult("tokenB")}

\* The request pipeline: every argument of request(), a cached and a fresh
\* token, and one response per class of status.
RequestScopes == {None, List(<<"Mail.Read">>)}
CachedResults == {None, TokenResult("tokenA")}
FreshResults == {ErrorResult} \cup {TokenResult(tok) : tok \in Tokens}

Init ==
    /\ FreshStore
    /\ customSession \in BOOLEAN
    /\ Idle
    /\ AuxIdle

Next ==
    \/ Request({"GET"}, PathArgs, HeaderArgs, RequestScopes, CachedResults, FreshResults)
    \/ TransportRetry(CoreResponses)
    \/ TransportFails(CoreResponses)
    \/ Respond(CoreResponses, FreshResults)
    \/ Finish

Spec == Init /\ [][Next]_vars

\* The token provider alone: direct get_access_token calls, every answer of
\* the MSAL client.
InitAuth ==
    /\ FreshStore
    /\ customSession = FALSE
    /\ Idle
    /\ AuxIdle

NextAuth ==
    \/ CallGetAccessToken
    \/ Finish

SpecAuth == InitAuth /\ [][NextAuth]_vars

\* Response handling: one fixed call of request() through an injected
\* session that hands back every status, body and reason phrase.
InitResponse ==
    /\ FreshStore
    /\ customSession = TRUE
    /\ Idle
    /\ AuxIdle

NextResponse ==
    \/ Request({"GET"}, FixedPath, {None}, {None}, CachedToken, FreshToken)
    \/ TransportFails(DetailedResponses)
    \/ Respond(DetailedResponses, FreshToken)
    \/ Finish

SpecResponse == InitResponse /\ [][NextResponse]_vars

\* The transport: one fixed call of request(), every status, with and
\* without a Retry-After header.
NextTransport ==
    \/ Request({"GET", "HEAD"}, FixedPath, {None}, {None}, CachedToken, FreshToken)
    \/ TransportRetry(PlainResponses)
    \/ TransportFails(PlainResponses)
    \/ Respond(PlainResponses, FreshToken)
    \/ Finish

SpecTransport == Init /\ [][NextTransport]_vars

\* The token store alone, one caller: managers are constructed over every
\* kind of backing file, tokens are exchanged, the cache persisted and cleared.
StoredFiles == {NoFile, EmptyFile, Malformed, Serialize(1)}

InitStore ==
    /\ hasPath = FALSE
    /\ mem = 0
    /\ dirty = FALSE
    /\ file \in StoredFiles
    /\ customSession = FALSE
    /\ Idle
    /\ AuxIdle

NextStore ==
    \/ Construct
    \/ Exchange
    \/ PersistCall
    \/ ClearCall

SpecStore == InitStore /\ [][NextStore]_vars

\* Two threads refresh tokens through one shared TokenCacheManager.
NextThreads ==
    \/ \E t \in Threads :
          \/ ThreadExchange(t)
          \/ ThreadCheck(t)
          \/ ThreadSerialize(t)
          \/ ThreadAcquire(t)
          \/ ThreadOpen(t)
          \/ ThreadWrite(t)
    \/ ReaderLoad

SpecThreads == InitAuth /\ [][NextThreads]_vars

\* Threads that refresh tokens and threads that clear the cache, through
\* one shared TokenCacheManager.
NextClearRace ==
    \E t \in Threads :
        \/ ThreadExchange(t)
        \/ ThreadCheck(t)
        \/ ThreadSerialize(t)
        \/ ThreadAcquire(t)
        \/ ThreadOpen(t)
        \/ ThreadWrite(t)
        \/ ThreadClearAcquire(t)
        \/ ThreadClearCache(t)
        \/ ThreadUnlink(t)

SpecClearRace == InitAuth /\ [][NextClearRace]_vars

\* The scanner: every bound, every folder lookup and every server answer.
NextScan ==
    \/ ScanFolder
    \/ ScanWithFilter
    \/ ScanPage
    \/ ScanReturn
    \/ ScanFinish

InitScan ==
    /\ FreshStore
    /\ hasPath = FALSE
    /\ customSession = FALSE
    /\ Idle
    /\ AuxIdle

SpecScan == InitScan /\ [][NextScan]_vars

\* The scans that look the inbox up before they scan.
NextScanInbox ==
    \/ ScanInbox
    \/ ScanWithFilter
    \/ ScanPage
    \/ ScanReturn
    \/ ScanFinish

SpecScanInbox == InitScan /\ [][NextScanInbox]_vars

\* scan_folder against a server that may answer any number of requests. The
\* interpreter runs the scan: an iteration of the generator that can be made
\* is made, and a scan whose loop is over returns.
NextScanForever ==
    \/ ScanFolder
    \/ ScanPageUnlogged
    \/ ScanReturn
    \/ ScanFinish

SpecScanForever ==
    /\ InitScan
    /\ [][NextScanForever]_vars
    /\ WF_vars(ScanPageUnlogged)
    /\ WF_vars(ScanReturn)

\* The folder manager alone: listings, lookups by id and cache clearing in
\* any order, against every answer of the server.
NextFolders ==
    \/ ListFolders
    \/ ListFoldersPage
    \/ GetFolderById
    \/ ClearFolderCache
    \/ FolderFinish

SpecFolders == InitScan /\ [][NextFolders]_vars

\* The configuration helpers alone, over every short scope text and scope
\* sequence.
\* The folder manager with the history of its complete listings.
NextFolderHistory ==
    \/ ListFolders
    \/ ListFoldersPageNoted
    \/ GetFolderById
    \/ ClearFolderCache
    \/ FolderFinish

SpecFolderHistory == InitScan /\ [][NextFolderHistory]_vars

NextConfig ==
    \/ NormalizeCall
    \/ NormalizeAgain
    \/ FromEnv
    \/ WithScopes

SpecConfig == InitScan /\ [][NextConfig]_vars

(* ------------------------------------------------------------ properties *)

Is2xx(status) == 200 <= status /\ status < 300

\* request() has returned or raised.
RequestDone == op = "request" /\ pc = "done"

\* request() ended in _handle_response: resp is the final response.
FinalResponse ==
    /\ RequestDone
    /\ Len(sent) >= 1
    /\ Len(statuses) = Len(sent)
    /\ ~(Len(sent) = 1 /\ resp.status = 401)

\* request() ended because its last session.request call raised.
TransportFailed == RequestDone /\ Len(statuses) < Len(sent)

\* The get_access_token calls of the operation that forced a refresh.
ForcedRefreshes == {i \in DOMAIN auth : auth[i].call.force_refresh}

\* What a body stands for: nothing, its document, or its text.
ExpectedBody(body) ==
    CASE body.kind = "empty" -> None
      [] body.kind = "json"  -> body.doc
      [] OTHER               -> Str(body.raw)

\* The error envelope of a response: the mapping under "error", or None.
EnvelopeOf(r) ==
    IF /\ r.body.kind = "json"
       /\ r.body.doc.t = "dict"
       /\ "error" \in DOMAIN r.body.doc.v
       /\ r.body.doc.v["error"].t = "dict"
    THEN r.body.doc.v["error"]
    ELSE None

EnvelopeRest(env) == Dict([k \in DOMAIN env.v \ {"code", "message"} |-> env.v[k]])

\* C1: when the first response is 401 and the response to the retry is 2xx,
\* request() returns the body of the 2xx response and get_access_token is
\* called with force_refresh=True exactly once.
C1_RefreshThenSuccess ==
    (RequestDone /\ Len(statuses) = 2 /\ statuses[1] = 401 /\ Is2xx(statuses[2]))
        => /\ outcome.kind = "return"
           /\ outcome.value = ExpectedBody(resp.body)
           /\ Cardinality(ForcedRefreshes) = 1

C1_Witness ==
    /\ RequestDone
    /\ statuses = <<401, 200>>
    /\ outcome.kind = "return"
    /\ Len(auth) = 2

\* C2: request() sends at most twice and forces at most one refresh; when
\* both responses are 401 it raises GraphApiError with status_code 401 after
\* exactly two sends.
C2_AtMostOneRetry ==
    /\ Len(sent) <= 2
    /\ Cardinality(ForcedRefreshes) <= 1
    /\ (RequestDone /\ statuses = <<401, 401>>)
          => /\ outcome.kind = "raise"
             /\ outcome.exc = "GraphApiError"
             /\ outcome.err.status_code = 401
             /\ Len(sent) = 2

C2_Witness == RequestDone /\ statuses = <<401, 401>> /\ Len(sent) = 2

\* C3: in every request sent, Authorization is the bearer token obtained for
\* that send and Accept is application/json, whatever headers the caller
\* supplied.
C3_DefaultHeadersWin ==
    \A i \in DOMAIN sent :
        /\ sent[i].headers["Authorization"] = Bearer(auth[i].token)
        /\ sent[i].headers["Accept"] = <<"application/json">>

C5_SuccessBody ==
    (FinalResponse /\ Is2xx(resp.status))
        => /\ outcome.kind = "return"
           /\ outcome.value = ExpectedBody(resp.body)

C5_Witness ==
    /\ FinalResponse
    /\ resp.status = 200
    /\ resp.body.kind = "garbage"
    /\ outcome = Return(Str("<html>"))

\* C6: a failure of the transport reaches the caller of request() only as
\* one of the client's typed failures.
C6_OnlyTypedFailures ==
    TransportFailed => outcome.exc \in {"GraphApiError", "TransportError"}

\* The mounted adapter has retried: the last attempt met a response and
\* session.request is still running.
RetriedResponse == pc = "send" /\ attempts > 0 /\ wireEvent.kind = "response"

\* C7 as claimed, its bound on the attempts: the mounted adapter makes at
\* most 5 attempts in total and fails after the fifth.
C7_FiveAttempts ==
    ~customSession =>
        /\ attempts <= 5
        /\ (RequestDone /\ outcome.exc = "requests.RetryError") => attempts = 5

\* C7 as amended: the mounted adapter makes at most 6 attempts, the first
\* and 5 retries, and fails after the sixth; it retries no status outside
\* the forcelist, except a 413 that carries a Retry-After header.
C7_SixAttempts ==
    ~customSession =>
        /\ attempts <= RetryTotal + 1
        /\ (RequestDone /\ outcome.exc = "requests.RetryError")
              => attempts = RetryTotal + 1
        /\ RetriedResponse
              => \/ wireEvent.status \in StatusForcelist
                 \/ wireEvent.status = 413 /\ wireEvent.retryAfter

C7_Witness ==
    /\ ~customSession
    /\ RequestDone
    /\ outcome.exc = "requests.RetryError"
    /\ wireEvent.status = 429
    /\ attempts = 6

\* The token the acquisitions of a logged call yielded.
YieldedToken(e) ==
    IF HasAccessToken(e.call.silentRes) THEN e.call.silentRes.v["access_token"].v
    ELSE IF HasAccessToken(e.call.fullRes) THEN e.call.fullRes.v["access_token"].v
    ELSE ""

\* persist() raised in a call that had its token.
PersistFailed(e) ==
    e.kind = "raise" /\ e.exc = "TokenCacheError" /\ e.persists = 1 /\ hasPath

\* C8 as claimed: without force_refresh, a silent acquisition that yields an
\* access_token makes get_access_token return that token without calling
\* acquire_token_for_client.
C8_SilentTokenReturned ==
    \A i \in DOMAIN auth :
        (~auth[i].call.force_refresh /\ HasAccessToken(auth[i].call.silentRes))
            => /\ auth[i].kind = "return"
               /\ auth[i].token = YieldedToken(auth[i])
               /\ auth[i].call.fullCalls = <<>>

\* C8 as amended: ... makes get_access_token return that token, unless
\* persist() raises TokenCacheError, and acquire_token_for_client is not
\* called.
C8_SilentTokenUsed ==
    \A i \in DOMAIN auth :
        (~auth[i].call.force_refresh /\ HasAccessToken(auth[i].call.silentRes))
            => /\ \/ auth[i].kind = "return" /\ auth[i].token = YieldedToken(auth[i])
                  \/ PersistFailed(auth[i])
               /\ auth[i].call.fullCalls = <<>>

C8_Witness ==
    /\ op = "get_access_token"
    /\ pc = "done"
    /\ auth[1].call.silentRes = TokenResult("tokenA")
    /\ outcome = Return(Str("tokenA"))

\* The scopes a call asks for: the requested ones, or the configured ones
\* when none are given.
RequestedOrConfigured(scopes) ==
    IF scopes = None \/ scopes = List(<<>>) THEN ConfigScopes ELSE scopes.v

\* C9: with force_refresh=True get_access_token never calls the silent
\* acquisition and calls acquire_token_for_client exactly once, with
\* force_refresh=True and the target scopes.
C9_ForcedRefreshSkipsSilent ==
    \A i \in DOMAIN auth :
        auth[i].call.force_refresh
            => /\ auth[i].call.silentCalls = <<>>
               /\ auth[i].call.fullCalls =
                    <<[scopes |-> RequestedOrConfigured(auth[i].call.scopes),
                       force_refresh |-> TRUE]>>

C9_Witness ==
    /\ op = "get_access_token"
    /\ pc = "done"
    /\ auth[1].call.force_refresh
    /\ auth[1].call.scopes = List(<<"Mail.Read">>)
    /\ auth[1].call.fullCalls = <<[scopes |-> <<"Mail.Read">>, force_refresh |-> TRUE]>>

\* No acquisition of a logged call yielded an access_token.
NothingYielded(e) ==
    ~HasAccessToken(e.call.silentRes) /\ ~HasAccessToken(e.call.fullRes)

C11_PersistOncePerToken ==
    \A i \in DOMAIN auth :
        /\ auth[i].kind = "return" => auth[i].persists = 1
        /\ (auth[i].kind = "raise" /\ auth[i].exc = "AuthenticationError")
              => auth[i].persists = 0

\* A token came from the cache: nothing changed, persist() was still called
\* and wrote nothing.
C11_Witness ==
    /\ op = "get_access_token"
    /\ pc = "done"
    /\ outcome.kind = "return"
    /\ auth[1].call.fullCalls = <<>>
    /\ ~dirty
    /\ auth[1].persists = 1
    /\ auth[1].writes = 0

\* The last direct store operation was this one.
Called(name) == storeCall.name = name
CalledOk(name) == storeCall.name = name /\ storeCall.exc = ""

\* C12 as claimed: a persist() made when no exchange changed the cache since
\* the previous persist() writes nothing, and a persist() made when the
\* cache has changed and a path is configured writes the serialized state
\* once.
C12_PersistIdempotent ==
    Called("persist") =>
        /\ ~storeCall.unsavedBefore => storeCall.writes = 0
        /\ (storeCall.unsavedBefore /\ hasPath)
              => storeCall.writes = 1 /\ file = Serialize(mem)

\* C12 as amended: ... writes the serialized state once, unless the write
\* fails, and then persist() raises TokenCacheError and has written no state.
C12_PersistIdempotentOrRaises ==
    Called("persist") =>
        /\ ~storeCall.unsavedBefore => storeCall.writes = 0
        /\ (storeCall.unsavedBefore /\ hasPath)
              => \/ CalledOk("persist") /\ storeCall.writes = 1 /\ file = Serialize(mem)
                 \/ /\ storeCall.exc = "TokenCacheError"
                    /\ storeCall.writes = 0
                    /\ file \in {storeCall.before.file, EmptyFile}

\* The second of two persist() calls writes nothing: the first wrote the
\* changed state.
C12_Witness ==
    /\ CalledOk("persist")
    /\ hasPath
    /\ ~storeCall.unsavedBefore
    /\ ~storeCall.before.dirty
    /\ storeCall.writes = 0
    /\ mem = 2
    /\ file = Serialize(2)

\* C13: constructing a TokenCacheManager over an existing backing file that
\* holds no valid serialized state, an empty file included, raises
\* TokenCacheError.
C13_InvalidFileRejected ==
    (Called("construct") /\ hasPath /\ storeCall.before.file \in {EmptyFile, Malformed})
        => storeCall.exc = "TokenCacheError"

\* C14: after clear() has returned the in-memory state is empty and the
\* backing file does not exist; clear() succeeds when the file is already
\* absent; clear() raises TokenCacheError only when the file exists and is
\* still there, the deletion having failed.
C14_ClearRemovesState ==
    Called("clear") =>
        /\ storeCall.exc = "" => (mem = 0 /\ (hasPath => file = NoFile))
        /\ (~hasPath \/ storeCall.before.file = NoFile) => storeCall.exc = ""
        /\ storeCall.exc # ""
              => /\ storeCall.exc = "TokenCacheError"
                 /\ file = storeCall.before.file
                 /\ file # NoFile

\* clear() emptied a cache that held tokens and removed its file.
C14_Witness ==
    /\ CalledOk("clear")
    /\ hasPath
    /\ storeCall.before.mem = 2
    /\ storeCall.before.file = Serialize(2)
    /\ mem = 0
    /\ file = NoFile

\* Every persist() of the refreshing threads has returned, none has raised.
AllPersisted ==
    /\ \A t \in Threads : tpc[t] = "idle" /\ ~traised[t]
    /\ mem > 0

\* C15: once every persist() of two concurrently refreshing threads has
\* returned, the backing file holds the serialization of the final in-memory
\* credential state.
C15_FileIsFinalState ==
    (AllPersisted /\ hasPath) => file = Serialize(mem)

\* A scan has returned its ScanResult.
ScanReturned == scan.pc = "done" /\ scan.exc = ""

\* The scan went through its loop: it did not end in the folder lookup.
ScanLooped == ScanReturned /\ ~(scan.folder_id = None /\ scan.lookup = "not_found")

\* C16 as claimed: every ScanResult returned by scan_folder or
\* scan_with_filter has scanned_count = len(emails) + skipped_count,
\* total_count = len(emails) and len(errors) = skipped_count.
C16_Accumulators ==
    ScanReturned =>
        /\ scan.result.scanned_count = Len(scan.result.emails) + scan.result.skipped_count
        /\ scan.result.total_count = Len(scan.result.emails)
        /\ Len(scan.result.errors) = scan.result.skipped_count

\* C16 as amended: ... and len(errors) = skipped_count, except in the empty
\* result scan_with_filter returns when no inbox is found, whose one error
\* is 'Inbox folder not found' and whose skipped_count is 0.
C16_AccumulatorsOrNoInbox ==
    ScanReturned =>
        /\ scan.result.scanned_count = Len(scan.result.emails) + scan.result.skipped_count
        /\ scan.result.total_count = Len(scan.result.emails)
        /\ IF ScanLooped
           THEN Len(scan.result.errors) = scan.result.skipped_count
           ELSE /\ scan.result.errors = <<"Inbox folder not found">>
                /\ scan.result.skipped_count = 0
                /\ scan.result.emails = <<>>

\* Two pages were scanned, one record of each failed to parse.
C16_Witness ==
    /\ ScanLooped
    /\ Len(scan.requests) = 2
    /\ scan.result.scanned_count = 3
    /\ scan.result.skipped_count = 2
    /\ Len(scan.result.errors) = 2
    /\ Len(scan.result.emails) = 1

\* The bound of a scan is the max_emails argument, or the scanner's
\* configured maximum when the argument is None or 0.
BoundReached == scan.op # "none" /\ Len(scan.emails) >= scan.limit

\* C17: a scan never holds more emails than its bound; once the bound is
\* reached the record scanned last is the email that reached it, on the page
\* requested last, no further request can follow, and the result keeps the
\* cursor of that page as next_link.
C17_StopsAtBound ==
    /\ scan.op # "none" => Len(scan.emails) <= scan.limit
    /\ ScanReturned => Len(scan.result.emails) <= scan.limit
    /\ BoundReached =>
          /\ scan.pc \in {"return", "done"}
          /\ scan.last_scanned = scan.emails[Len(scan.emails)]
          /\ scan.last_scanned[1] = Len(scan.requests)
          /\ scan.next_link = scan.received[Len(scan.requests)].next_link
          /\ ScanReturned => scan.result.next_link = scan.next_link

\* The bound 1 was reached by the first record of a first page of two
\* that carries a cursor.
C17_Witness ==
    /\ scan.op = "scan_folder"
    /\ ScanReturned
    /\ scan.max_emails = IntOf(1)
    /\ scan.result.emails = << <<1, 1>> >>
    /\ scan.total_fetched = 2
    /\ scan.result.scanned_count = 1
    /\ Len(scan.requests) = 1
    /\ scan.result.next_link = Str(<<"link", 1>>)

\* The responses a scan received: every answer but a failed request.
PagesReceived == {i \in DOMAIN scan.received : scan.received[i].kind # "raise"}

\* The cursor of the page received last, None when it carried none or no
\* page was received.
LastCursor ==
    IF PagesReceived = {} THEN None
    ELSE scan.received[CHOOSE i \in PagesReceived : \A j \in PagesReceived : j <= i].next_link

\* The bound the caller asked for: max_emails, or the configured maximum
\* when max_emails is None or 0.
Bound ==
    IF scan.max_emails = None \/ scan.max_emails = IntOf(0) THEN scan.configured
    ELSE scan.max_emails.v

\* C18: in every ScanResult of scan_folder and scan_with_filter, has_more
\* is true if and only if the page received last carried a cursor and the
\* number of parsed records reached the bound.
C18_HasMoreIffCursorAndBound ==
    ScanReturned =>
        (scan.result.has_more <=>
            (LastCursor # None /\ Len(scan.result.emails) >= Bound))

\* A scan that reached its bound on a page with a cursor reports has_more.
C18_Witness ==
    /\ ScanReturned
    /\ scan.result.has_more
    /\ Len(scan.requests) = 2
    /\ Len(scan.result.emails) = Bound

\* A cursor is left but the bound was not reached: has_more is false.
C18_WitnessCursorOnly ==
    /\ ScanReturned
    /\ ~scan.result.has_more
    /\ scan.result.next_link # None
    /\ Len(scan.result.emails) < Bound

\* The scan is over, with a result or an exception, and its first response
\* was a page of more records than the bound.
FirstPageExceedsBound ==
    /\ scan.pc = "done"
    /\ Len(scan.received) >= 1
    /\ scan.received[1].kind = "page"
    /\ scan.received[1].size > Bound

\* The records of a page that parse, in page order, up to the first record
\* whose parsing raises TypeError.
RECURSIVE InOrder(_, _, _)
InOrder(ids, n, i) ==
    IF i > MaxPageLen + 1 THEN <<>>
    ELSE (IF <<n, i>> \in ids THEN << <<n, i>> >> ELSE <<>>) \o InOrder(ids, n, i + 1)

Parsable(n) ==
    LET page == scan.received[n]
    IN  InOrder({id \in page.parsable : page.fatal = 0 \/ id[2] < page.fatal}, n, 1)

\* C19 as claimed: a scan bounded to N whose first page holds more than N
\* records returns exactly N parsed records and has_more = true.
C19_ExactlyBoundAndMore ==
    FirstPageExceedsBound =>
        /\ ScanReturned
        /\ Len(scan.result.emails) = Bound
        /\ scan.result.has_more

\* Two pages were received, the first with a cursor, the second without,
\* and the bound was not reached.
TwoPages ==
    /\ Len(scan.received) >= 2
    /\ scan.received[1].kind = "page"
    /\ scan.received[1].next_link # None
    /\ scan.received[2].kind = "page"
    /\ scan.received[2].next_link = None
    /\ Len(scan.emails) < Bound

\* Every record of a received page, in page order.
Records(n) == InOrder({<<n, i>> : i \in 1..scan.received[n].size}, n, 1)

\* A record of the first two pages whose parsing raises TypeError.
FatalRecord == scan.received[1].fatal # 0 \/ scan.received[2].fatal # 0

C21_ParseFailuresNonFatal ==
    (scan.op = "scan_folder" /\ scan.pc = "done") =>
        /\ ScanReturned
        /\ scan.result.emails = scan.emails
        /\ scan.result.skipped_count = Len(scan.result.errors)

\* The records of the first k responses that parse, in arrival order.
RECURSIVE ParsedUpTo(_)
ParsedUpTo(k) == IF k = 0 THEN <<>> ELSE ParsedUpTo(k - 1) \o Parsable(k)

\* The last request of the scan failed.
LastRequestFailed ==
    /\ scan.received # <<>>
    /\ scan.received[Len(scan.received)].kind = "raise"

\* C22: when a page request of scan_folder fails after k pages were
\* received, no further request is issued and the scan does not raise: it
\* returns a ScanResult holding exactly the records accumulated from the k
\* pages.
C22_FailureGivesPartialResult ==
    /\ Len(scan.requests) = Len(scan.received)
    /\ \A i \in DOMAIN scan.received :
         scan.received[i].kind = "raise" => i = Len(scan.received)
    /\ LastRequestFailed => scan.pc \in {"return", "done"}
    /\ (scan.op = "scan_folder" /\ LastRequestFailed /\ scan.pc = "done") =>
          /\ ScanReturned
          /\ scan.result.emails = ParsedUpTo(Len(scan.received) - 1)
          /\ scan.result.total_count = Len(scan.result.emails)

\* The second request failed after a first page of which one record parsed
\* and one was skipped.
C22_Witness ==
    /\ scan.op = "scan_folder"
    /\ ScanReturned
    /\ Len(scan.received) = 2
    /\ LastRequestFailed
    /\ scan.received[1].size = 2
    /\ scan.result.emails = << <<1, 2>> >>
    /\ scan.result.skipped_count = 1
    /\ Len(scan.requests) = 2

\* C23: every scan_folder call eventually returns or raises, whatever the
\* server answers.
C23_ScanTerminates == (scan.op = "scan_folder") ~> (scan.pc = "done")

\* list_folders has returned or raised.
FoldersListed == fm.op = "list_folders" /\ fm.pc = "done"

\* A listing that found the cache filled and was not asked to refresh.
ListedFromCache == FoldersListed /\ ~fm.refresh_cache /\ fm.before # <<>>

\* A refresh always asks the server, and so does the listing that follows
\* clear_cache().
ListingAsksServer ==
    /\ (fm.op = "list_folders" /\ fm.refresh_cache) => fm.pc = "listing" \/ fm.requests >= 1
    /\ fm.op = "clear_cache" => fm.cache = <<>>
    /\ (fm.op = "list_folders" /\ fm.prev = "clear_cache") =>
          fm.pc = "listing" \/ fm.requests >= 1

\* C24 as claimed: a list_folders() without refresh_cache that finds the
\* cache filled issues no request and returns the cached folders; a refresh
\* always issues a request, and so does the listing after clear_cache().
C24_CachedFoldersReturned ==
    /\ ListedFromCache =>
          /\ fm.requests = 0
          /\ fm.exc = ""
          /\ fm.result = List(fm.before)
    /\ ListingAsksServer

\* C24 as amended: a list_folders() without refresh_cache that finds the
\* cache filled issues no request and returns the cached folders, without
\* the hidden ones unless include_hidden is set; a refresh always issues a
\* request, and so does the listing after clear_cache().
C24_CachedVisibleFoldersReturned ==
    /\ ListedFromCache =>
          /\ fm.requests = 0
          /\ fm.exc = ""
          /\ fm.cache = fm.before
          /\ fm.result = List(Visible(fm.before, fm.include_hidden))
    /\ ListingAsksServer

\* A listing served from a cache of one visible and one hidden folder.
C24_Witness ==
    /\ ListedFromCache
    /\ fm.prev = "list_folders"
    /\ fm.before = <<"hidden", "inbox">>
    /\ fm.result = List(<<"inbox">>)

\* A refresh over a filled cache asked the server.
C24_WitnessRefresh ==
    /\ FoldersListed
    /\ fm.refresh_cache
    /\ fm.before # <<>>
    /\ fm.requests = 2
    /\ fm.exc = ""

\* The scopes entered in an input, in order: the entries of a sequence, or
\* the stretches of a text between commas and spaces, each without the
\* whitespace around it, blank ones left out.
RECURSIVE Stretches(_, _)
Stretches(text, from) ==
    IF from > Len(text) + 1 THEN <<>>
    ELSE LET ends == {i \in from..Len(text) : text[i] \in {",", " "}}
             to == IF ends = {} THEN Len(text) + 1
                   ELSE CHOOSE i \in ends : \A j \in ends : i <= j
         IN  <<SubSeq(text, from, to - 1)>> \o Stretches(text, to + 1)

Entered(input) ==
    LET all == IF input.t = "str" THEN Stretches(input.v, 1) ELSE input.v
        kept == {i \in DOMAIN all : Strip(all[i]) # <<>>}
    IN  [i \in kept |-> Strip(all[i])]

\* The place where a scope was entered first.
FirstEntered(entered, scope) ==
    CHOOSE i \in DOMAIN entered :
        /\ entered[i] = scope
        /\ \A j \in DOMAIN entered : entered[j] = scope => i <= j

\* A scope was entered more than once.
EnteredTwice(entered) ==
    \E i, j \in DOMAIN entered : i # j /\ entered[i] = entered[j]

Normalized == cfg.op \in {"_normalize_scopes", "_normalize_scopes again"}

\* C25: the tuple _normalize_scopes gives for an input in which a scope
\* occurs more than once holds each scope entered exactly once, in the
\* order of first occurrence; and the tuple it gives for a tuple it gave is
\* that tuple.
C25_ScopesOnceInOrder ==
    /\ (Normalized /\ EnteredTwice(Entered(cfg.input))) =>
          LET entered == Entered(cfg.input)
          IN  /\ Range(cfg.scopes) = {entered[i] : i \in DOMAIN entered}
              /\ \A i, j \in DOMAIN cfg.scopes :
                   /\ i # j => cfg.scopes[i] # cfg.scopes[j]
                   /\ i < j => FirstEntered(entered, cfg.scopes[i])
                                 < FirstEntered(entered, cfg.scopes[j])
    /\ cfg.op = "_normalize_scopes again" => cfg.scopes = cfg.input.v

\* "b,a b" gives (b, a).
C25_Witness ==
    /\ cfg.op = "_normalize_scopes"
    /\ cfg.input = Str(<<"b", ",", "a", " ", "b">>)
    /\ cfg.scopes = << <<"b">>, <<"a">> >>

\* A tuple of two scopes was normalized again.
C25_WitnessAgain ==
    /\ cfg.op = "_normalize_scopes again"
    /\ cfg.input = List(<< <<"b">>, <<"a">> >>)
    /\ cfg.scopes = << <<"b">>, <<"a">> >>

\* An error status: 400 to 599.
IsError(status) == 400 <= status /\ status < 600

\* request() raised GraphApiError with this status.
RaisedApiError(status) ==
    /\ outcome.kind = "raise"
    /\ outcome.exc = "GraphApiError"
    /\ outcome.err.status_code = status

C26_WitnessRetry ==
    /\ RequestDone
    /\ statuses = <<401, 404>>
    /\ RaisedApiError(404)
    /\ Cardinality(ForcedRefreshes) = 1

\* C27: a get_access_token call without force_refresh raises
\* AuthenticationError only after the silent and the full acquisition were
\* both made, and no call makes more than two acquisitions.
C27_BothPathsBeforeFailure ==
    \A i \in DOMAIN auth :
        /\ Len(auth[i].call.silentCalls) + Len(auth[i].call.fullCalls) <= 2
        /\ (/\ ~auth[i].call.force_refresh
            /\ auth[i].kind = "raise"
            /\ auth[i].exc = "AuthenticationError")
              => /\ Len(auth[i].call.silentCalls) = 1
                 /\ Len(auth[i].call.fullCalls) = 1

\* C28: the credential state is marked changed exactly when it differs from
\* the copy last written: an exchange marks it, a persist() that wrote it
\* unmarks it and leaves the file equal to it, and a persist() that failed
\* with TokenCacheError leaves it marked.
C28_DirtyIffUnsaved ==
    /\ Called("exchange") => dirty
    /\ (CalledOk("persist") /\ hasPath /\ storeCall.before.dirty) =>
          ~dirty /\ file = Serialize(mem)
    /\ (Called("persist") /\ storeCall.exc = "TokenCacheError") => dirty

\* No write of a refreshing thread has failed.
NoWriteFailed == \A t \in Threads : ~traised[t]

\* C29: a TokenCacheManager constructed on the path while other threads
\* persist reads either no file or a complete serialized state, never an
\* empty or partly written file.
C29_ReaderSeesCompleteFile ==
    (Called("construct") /\ NoWriteFailed) =>
        storeCall.before.file \notin {EmptyFile, Malformed}

RECURSIVE FetchedBefore(_)
FetchedBefore(i) ==
    IF i <= 1 THEN 0 ELSE FetchedBefore(i - 1) + scan.received[i - 1].fetched

\* The number of records a request asks for: its $top, and for a cursor the
\* page size of the listing it continues, which is the $top of the first
\* request.
AskedFor(i) == scan.requests[1].top.v

\* The server returned no more records than any request asked for.
ServerKeepsPageSize ==
    \A i \in DOMAIN scan.received : scan.received[i].size <= AskedFor(i)

\* C31: every request of a scan, to the initial path or to a cursor, carries
\* $top = min(batch_size, max_emails - total_fetched), and when the server
\* returns no more records than a request asks for, the records fetched
\* during the scan never exceed max_emails.
C31_RequestsCapped ==
    /\ \A i \in DOMAIN scan.requests :
         scan.requests[i].top = IntOf(Min(scan.batch_size, Bound - FetchedBefore(i)))
    /\ ServerKeepsPageSize => FetchedBefore(Len(scan.received) + 1) <= Bound

\* C31 (fetched records only): when the server returns no more records than
\* the first request asked for on any page, the records fetched during the
\* scan never exceed max_emails.
C31_FetchedWithinBound ==
    ServerKeepsPageSize => FetchedBefore(Len(scan.received) + 1) <= Bound

\* A request of the scan failed.
SomeRequestFailed == \E i \in DOMAIN scan.received : scan.received[i].kind = "raise"

\* C32: a scan that went through its loop returned because the number of
\* parsed records reached the bound, or the page received last carried no
\* cursor, or a request failed: a ScanResult with fewer emails than the bound,
\* obtained without a failed request, has no cursor left in next_link.
C32_StopsForThreeReasons ==
    ScanLooped =>
        \/ Len(scan.result.emails) >= Bound
        \/ SomeRequestFailed
        \/ scan.result.next_link = None

\* from_env or with_scopes gave a config.
ConfigProduced == cfg.op \in {"from_env", "with_scopes"} /\ cfg.exc = ""

\* C33: the scope tuple of every AuthConfig from_env or with_scopes gives is
\* not empty and holds no scope twice and no blank entry.
C33_ScopesValid ==
    ConfigProduced =>
        /\ cfg.scopes # <<>>
        /\ \A i, j \in DOMAIN cfg.scopes : i # j => cfg.scopes[i] # cfg.scopes[j]
        /\ \A i \in DOMAIN cfg.scopes : Strip(cfg.scopes[i]) # <<>>

\* list_folders answered from the cache, without a request.
AnsweredFromCache == FoldersListed /\ fm.exc = "" /\ fm.requests = 0

\* C34: whenever list_folders answers from the cache without a request, a
\* remote listing has run to its end before, and the folders returned are
\* those of the most recent such listing (without the hidden ones unless
\* include_hidden): a cache filled by get_folder_by_id or by an aborted
\* listing only is never served as the folder list.
C34_CacheIsLastCompleteListing ==
    AnsweredFromCache =>
        /\ fm.complete # None
        /\ Range(fm.result.v) = Range(Visible(fm.complete.v, fm.include_hidden))

\* list_folders(refresh_cache=True) has returned its fresh listing.
Refreshed == FoldersListed /\ fm.refresh_cache /\ fm.exc = ""

\* C35: when list_folders(refresh_cache=True) returns a listing of at least
\* one folder, the cache holds the folders of that listing and no other: a
\* folder cached before and absent from the listing is gone, so that no
\* cached listing and no cached lookup by id returns it.
C35_RefreshReplacesCache ==
    (Refreshed /\ fm.all_folders # <<>>) => Range(fm.cache) = Range(fm.all_folders)

\* clear() has returned without an error in some thread, every other thread
\* is in no call, and no token was exchanged after the cache was emptied
\* (an exchange fills the cache again).
ClearedAndQuiet ==
    /\ hasPath
    /\ \E t \in Threads : tpc[t] = "cleared" /\ ~traised[t]
    /\ \A t \in Threads : tpc[t] \in {"idle", "cleared"}
    /\ mem = 0

\* C36: once clear() has returned and every persist() has returned, with no
\* token exchange after the clear, no credentials are on disk: the backing
\* file does not exist, or holds the empty cache that a persist() serialized
\* after the cache was emptied.
C36_ClearedStaysCleared ==
    ClearedAndQuiet => file \in {NoFile, EmptyFile, Serialize(0)}

\* The URL starts with the client's base URL: its host, and its path
\* segments first.
StartsWithBase(url) ==
    /\ url.host = BaseUrl.host
    /\ Len(url.segments) >= Len(BaseUrl.segments)
    /\ SubSeq(url.segments, 1, Len(BaseUrl.segments)) = BaseUrl.segments

\* The request carries a token of the authentication manager as bearer.
CarriesBearer(request) ==
    \E i \in DOMAIN auth :
        auth[i].kind = "return" /\ request.headers["Authorization"] = Bearer(auth[i].token)

\* C37: for every path argument of request(), a continuation link
\* included, the URL of every request sent with the bearer token in its
\* Authorization header starts with the client's base URL.
C37_BearerOnlyToBase ==
    \A i \in DOMAIN sent : CarriesBearer(sent[i]) => StartsWithBase(sent[i].url)

\* The first get_access_token call of request() raised.
FirstTokenFailed == RequestDone /\ Len(auth) = 1 /\ auth[1].kind = "raise"

\* The forced refresh after a 401 raised.
RefreshFailed == RequestDone /\ Len(auth) = 2 /\ auth[2].kind = "raise"

\* Every request sent follows a get_access_token call of its own that
\* returned; nothing is sent when the first call raises, and exactly one
\* request when the forced refresh raises; the error of the call leaves
\* request() as it is.
SendsFollowTokens ==
    /\ Len(sent) <= Len(auth)
    /\ \A i \in DOMAIN sent : auth[i].kind = "return"
    /\ FirstTokenFailed => sent = <<>> /\ outcome = Raise(auth[1].exc)
    /\ RefreshFailed =>
          /\ Len(sent) = 1
          /\ statuses = <<401>>
          /\ outcome = Raise(auth[2].exc)
          /\ outcome.exc # "GraphApiError"

C38_WitnessRefreshFailed ==
    /\ RefreshFailed
    /\ Len(sent) = 1
    /\ outcome.exc = "AuthenticationError"

\* The first get_access_token raised and nothing was sent.
C38_WitnessNothingSent == FirstTokenFailed /\ sent = <<>> /\ outcome.kind = "raise"

\* scan_inbox, or scan_with_filter without a folder_id, is over.
InboxScanOver ==
    /\ scan.pc = "done"
    /\ scan.op \in {"scan_inbox", "scan_with_filter"}
    /\ scan.folder_id = None

\* C39: scan_inbox and scan_with_filter(folder_id=None) return a ScanResult
\* and do not raise when a request fails, the folder listing of the inbox
\* lookup included: a failed listing gives an empty result with an error
\* entry, as a missing inbox gives an empty result with the error 'Inbox
\* folder not found', and a failed page request gives the partial result.
C39_InboxScanDegrades ==
    /\ (InboxScanOver /\ scan.lookup = "not_found") =>
          /\ ScanReturned
          /\ scan.result.emails = <<>>
          /\ scan.result.errors = <<"Inbox folder not found">>
    /\ (InboxScanOver /\ scan.lookup = "raises") =>
          /\ ScanReturned
          /\ scan.result.emails = <<>>
          /\ scan.result.errors # <<>>
    /\ (InboxScanOver /\ SomeRequestFailed) => ScanReturned

====
